---- MODULE Spec2Model ----
(***************************************************************************)
(* A model of the Alinea SDK's in-process coordination objects:            *)
(*   WorldStateManager (alinea/world_state.py)  - locks, agents, HLC       *)
(*   Coordinator       (alinea/coordinator.py)  - intend / act, patterns   *)
(*   RealCoordinator / RealAlineaClient          - act over a backend      *)
(*   MemoryManager     (alinea/memory.py)       - patterns and surprises   *)
(*                                                                         *)
(* The SDK is asyncio code: a coroutine runs without interruption from one *)
(* suspension to the next.  The only suspensions inside the modelled       *)
(* methods are asyncio.sleep(0.1) in acquire_resource_lock and in          *)
(* _execute_action, and the HTTP request of the backend clients; an        *)
(* `await` of a coroutine that never suspends (release_resource_lock,      *)
(* _advance_hlc_time, ...) does not yield to the event loop.  Every action *)
(* below is one such uninterrupted run.                                    *)
(***************************************************************************)
EXTENDS Integers, Sequences, FiniteSets, TLC

\* The absent value: a missing dict key, Python's None.
None == "None"

\* Confidence scores and surprise magnitudes are floats of [0, 1]; they are
\* counted here in units of 1/Scale, so that 1.0 is Scale, 0.1 is Scale/10 and
\* the halves and quarters the code takes of them are whole numbers.
Scale == 160

\* Agent identifiers, resource names and the concurrently running asyncio tasks.
Agents == {"agent_1", "agent_2"}
Resources == {"db", "cache"}
Tasks == {"t1", "t2"}

\* The `state` values callers pass to set_resource_state.
States == {[status |-> "processing"]}

\* Largest timeout_seconds passed to acquire_resource_lock, in poll intervals.
MaxTimeout == 2
\* The timeout_seconds values a caller passes: none at all, and MaxTimeout.
Timeouts == {0, MaxTimeout}
\* Cap of the HLC counter, in clock ticks.
MaxHlc == 1

VARIABLES
    resource_locks,    \* WorldStateManager._resource_locks: resource -> agent_id
    active_agents,     \* WorldStateManager._active_agents: list of agent_id
    current_hlc_time,  \* WorldStateManager._current_hlc_time, in ticks of 0.1
    wpc,               \* per task: "idle", or "acquire" inside acquire_resource_lock
    wcall,             \* per task: the locals of its pending acquire_resource_lock
    wlast,             \* the call of the WorldStateManager that returned last
    snapshots          \* WorldStateManager._snapshots, in the order of creation

VARIABLES
    issued,             \* the Intention objects intend has returned, in order
    active_intentions,  \* Coordinator._active_intentions: the intention_ids in it
    pattern_cache,      \* Coordinator._pattern_cache: pattern key -> PatternConfidence
    cpc,                \* per task: "idle", or "executing" inside Coordinator.act
    ccall,              \* per task: the intention its pending act was given
    clast,              \* the call of the Coordinator that returned last
    successes           \* per intention_id: the act calls that returned success

wvars == <<resource_locks, active_agents, current_hlc_time, wpc, wcall, wlast,
           snapshots>>

VARIABLES
    real_active,  \* per backend client: its _active_intentions, the ids in it
    rpc,          \* per task: "idle", or the request it awaits the backend on
    rcall,        \* per task: the client and the intention of its pending call
    rlast         \* the call of a backend client that returned last

rvars == <<real_active, rpc, rcall, rlast>>

cvars == <<issued, active_intentions, pattern_cache, cpc, ccall, clast, successes>>

VARIABLES
    patterns,        \* MemoryManager._patterns: pattern_id -> MemoryPattern
    surprise_calls,  \* the record_surprise calls made on stored patterns
    mlast,           \* the call of the MemoryManager that returned last
    pattern_order,   \* the keys of _patterns in the order the dict holds them
    utcnow           \* datetime.utcnow(), in hours

mvars == <<patterns, surprise_calls, mlast, pattern_order, utcnow>>

VARIABLES
    magnitude  \* one call of _calculate_surprise_magnitude: arguments and value

fvars == <<magnitude>>

VARIABLES
    causal_cache,  \* CausalityAnalyzer._causal_cache: target_event -> CausalPath
    impact_cache,  \* CausalityAnalyzer._impact_cache: source_change -> ImpactAnalysis
    allocated,     \* the result objects the analyzer has constructed so far
    kpc,           \* per task: the counterfactual_analysis call it sleeps in
    klast          \* the call of the CausalityAnalyzer that returned last

kvars == <<causal_cache, impact_cache, allocated, kpc, klast>>

VARIABLES
    demo  \* per task: the DemoAgent.process_task call it runs, if any

dvars == <<demo>>

vars == <<wvars, cvars, rvars, mvars, fvars, kvars, dvars>>

\* What the WorldStateManager never touches, and what the Coordinator never
\* touches: the objects share no state.
\* A process_task call is a caller of the WorldStateManager, so the frame of
\* the manager's methods leaves the caller's variables to the caller.
notWorld == <<cvars, rvars, mvars, fvars, kvars>>
notCoordinator == <<wvars, rvars, mvars, fvars, kvars, dvars>>
notBackend == <<wvars, cvars, mvars, fvars, kvars, dvars>>
notMemory == <<wvars, cvars, rvars, fvars, kvars, dvars>>
notFunction == <<wvars, cvars, rvars, mvars, kvars, dvars>>
notCausality == <<wvars, cvars, rvars, mvars, fvars, dvars>>

NoCall == [resource |-> None, agent_id |-> None, timeout |-> 0, elapsed |-> 0,
           asleep |-> FALSE]

\* The `state` argument of a call that takes none.
NoState == [status |-> None]

NoReturn == [op |-> None, resource |-> None, agent_id |-> None, value |-> None,
             timeout |-> 0, state |-> NoState]

\* A call that returned: its name, its arguments and the value it returned.
Returned(op, resource, agent_id, value) ==
    [op |-> op, resource |-> resource, agent_id |-> agent_id, value |-> value,
     timeout |-> 0, state |-> NoState]

AcquireReturned(resource, agent_id, timeout, value) ==
    [op |-> "acquire", resource |-> resource, agent_id |-> agent_id,
     value |-> value, timeout |-> timeout, state |-> NoState]

\* set_resource_state(resource, state, agent_id) returned `value`.
SetStateReturned(resource, state, agent_id, value) ==
    [op |-> "set_state", resource |-> resource, agent_id |-> agent_id,
     value |-> value, timeout |-> 0, state |-> state]

(***************************************************************************)
(* WorldStateManager                                                       *)
(***************************************************************************)

\* Mutant of LoopRuns: gives up one poll interval early.
LoopRunsShort(elapsed, timeout) == elapsed + 1 < timeout

\* Mutant of LoopRuns: the operands of the subtraction swapped.
LoopRunsSwapped(elapsed, timeout) == (0 - elapsed) < timeout

\* while (utcnow() - start_time).total_seconds() < timeout_seconds
LoopRuns(elapsed, timeout) == elapsed < timeout

\* Mutant of ResourceAvailable: looks the resource up among the holders.
ResourceAvailableByValue(locks, resource) ==
    \A r \in DOMAIN locks : locks[r] # resource

\* if resource not in self._resource_locks
ResourceAvailable(locks, resource) == locks[resource] = None

\* Mutant of GrantLock: the entry is written for registered agents only.
GrantLockRegistered(locks, resource, agent_id) ==
    IF \E i \in 1..Len(active_agents) : active_agents[i] = agent_id
    THEN [locks EXCEPT ![resource] = agent_id]
    ELSE locks

\* self._resource_locks[resource] = agent_id
GrantLock(locks, resource, agent_id) == [locks EXCEPT ![resource] = agent_id]

\* release_resource_lock: the value it returns
ReleaseReturns(locks, resource, agent_id) ==
    IF locks[resource] = None THEN TRUE
    ELSE IF locks[resource] # agent_id THEN FALSE
    ELSE TRUE

\* Mutant of ReleaseLocks: no ownership check before the delete.
ReleaseLocksAnyAgent(locks, resource, agent_id) ==
    [locks EXCEPT ![resource] = None]

\* release_resource_lock: the lock table it leaves
ReleaseLocks(locks, resource, agent_id) ==
    IF locks[resource] = None THEN locks
    ELSE IF locks[resource] # agent_id THEN locks
    ELSE [locks EXCEPT ![resource] = None]

\* list.remove(x): drops the first occurrence of x
RECURSIVE ListRemove(_, _)
ListRemove(list, x) ==
    IF list = <<>> THEN <<>>
    ELSE IF Head(list) = x THEN Tail(list)
    ELSE <<Head(list)>> \o ListRemove(Tail(list), x)

ListHas(list, x) == \E i \in 1..Len(list) : list[i] = x

\* register_agent: the list of active agents it leaves
RegisterAgents(agents, agent_id) ==
    IF ~ListHas(agents, agent_id) THEN Append(agents, agent_id) ELSE agents

\* unregister_agent: the list of active agents it leaves
UnregisterAgents(agents, agent_id) ==
    IF ListHas(agents, agent_id) THEN ListRemove(agents, agent_id) ELSE agents

\* unregister_agent: locks_to_release
LocksToRelease(locks, agent_id) == {r \in Resources : locks[r] = agent_id}

\* unregister_agent: the lock table after release_resource_lock on each of
\* locks_to_release (the releases touch different keys, so their order is
\* immaterial)
RECURSIVE ReleaseAll(_, _, _)
ReleaseAll(locks, todo, agent_id) ==
    IF todo = {} THEN locks
    ELSE LET r == CHOOSE x \in todo : TRUE
         IN  ReleaseAll(ReleaseLocks(locks, r, agent_id), todo \ {r}, agent_id)

\* Mutant of UnregisterLocks: only the first lock found is released.
UnregisterLocksFirstOnly(locks, agent_id) ==
    IF LocksToRelease(locks, agent_id) = {} THEN locks
    ELSE ReleaseLocks(locks, CHOOSE r \in LocksToRelease(locks, agent_id) : TRUE,
                      agent_id)

UnregisterLocks(locks, agent_id) ==
    ReleaseAll(locks, LocksToRelease(locks, agent_id), agent_id)

\* Mutant of AdvanceHlc: the counter is read and not incremented.
AdvanceHlcStuck(current) == current

\* _get_current_hlc_time: current + 0.1, one clock tick
AdvanceHlc(current) == current + 1

\* Mutant of SetStateReturns: a locked resource is refused to its holder too.
SetStateReturnsUnlockedOnly(locks, resource, agent_id) == locks[resource] = None

\* set_resource_state: the value it returns
SetStateReturns(locks, resource, agent_id) ==
    IF locks[resource] # None /\ locks[resource] # agent_id THEN FALSE ELSE TRUE

\* acquire_resource_lock, from the call to its first suspension or return: the
\* loop condition is evaluated right after start_time is taken (elapsed = 0).
AcquireCall(t, resource, agent_id, timeout) ==
    /\ wpc[t] = "idle"
    /\ IF LoopRuns(0, timeout)
       THEN IF ResourceAvailable(resource_locks, resource)
            THEN /\ resource_locks' = GrantLock(resource_locks, resource, agent_id)
                 /\ wlast' = AcquireReturned(resource, agent_id, timeout, TRUE)
                 /\ UNCHANGED <<wpc, wcall>>
            ELSE /\ wpc' = [wpc EXCEPT ![t] = "acquire"]
                 /\ wcall' = [wcall EXCEPT ![t] =
                        [resource |-> resource, agent_id |-> agent_id,
                         timeout |-> timeout, elapsed |-> 0, asleep |-> TRUE]]
                 /\ UNCHANGED <<resource_locks, wlast>>
       ELSE /\ wlast' = AcquireReturned(resource, agent_id, timeout, FALSE)
            /\ UNCHANGED <<resource_locks, wpc, wcall>>
    /\ UNCHANGED <<active_agents, current_hlc_time, snapshots, notWorld>>

\* acquire_resource_lock, resumed after asyncio.sleep(0.1): one more turn of the
\* loop, up to the next sleep or the return.
AcquirePoll(t) ==
    /\ wpc[t] = "acquire"
    /\ ~wcall[t].asleep
    /\ LET c == wcall[t] IN
       IF LoopRuns(c.elapsed, c.timeout)
       THEN IF ResourceAvailable(resource_locks, c.resource)
            THEN /\ resource_locks' = GrantLock(resource_locks, c.resource, c.agent_id)
                 /\ wlast' = AcquireReturned(c.resource, c.agent_id, c.timeout, TRUE)
                 /\ wpc' = [wpc EXCEPT ![t] = "idle"]
                 /\ wcall' = [wcall EXCEPT ![t] = NoCall]
            ELSE /\ wcall' = [wcall EXCEPT ![t].asleep = TRUE]
                 /\ UNCHANGED <<resource_locks, wlast, wpc>>
       ELSE /\ wlast' = AcquireReturned(c.resource, c.agent_id, c.timeout, FALSE)
            /\ wpc' = [wpc EXCEPT ![t] = "idle"]
            /\ wcall' = [wcall EXCEPT ![t] = NoCall]
            /\ UNCHANGED resource_locks
    /\ UNCHANGED <<active_agents, current_hlc_time, snapshots, notWorld>>

\* One poll interval (0.1 s) of wall-clock time passes: every pending sleep is
\* over and every pending call is one interval older.  A task may be resumed
\* late, after more than one interval.
Tick ==
    /\ \E t \in Tasks : wpc[t] = "acquire" /\
            (wcall[t].asleep \/ wcall[t].elapsed < wcall[t].timeout)
    /\ wcall' = [t \in Tasks |->
            IF wpc[t] = "acquire"
            THEN [wcall[t] EXCEPT
                    !.elapsed = IF @ < wcall[t].timeout THEN @ + 1 ELSE @,
                    !.asleep = FALSE]
            ELSE wcall[t]]
    /\ UNCHANGED <<resource_locks, active_agents, current_hlc_time, wpc, wlast,
                   snapshots, notWorld>>

ReleaseResourceLock(t, resource, agent_id) ==
    /\ wpc[t] = "idle"
    /\ resource_locks' = ReleaseLocks(resource_locks, resource, agent_id)
    /\ wlast' = Returned("release", resource, agent_id,
                         ReleaseReturns(resource_locks, resource, agent_id))
    /\ UNCHANGED <<active_agents, current_hlc_time, wpc, wcall, snapshots, notWorld>>

RegisterAgent(t, agent_id) ==
    /\ wpc[t] = "idle"
    /\ active_agents' = RegisterAgents(active_agents, agent_id)
    /\ wlast' = Returned("register", None, agent_id, None)
    /\ UNCHANGED <<resource_locks, current_hlc_time, wpc, wcall, snapshots, notWorld>>

UnregisterAgent(t, agent_id) ==
    /\ wpc[t] = "idle"
    /\ active_agents' = UnregisterAgents(active_agents, agent_id)
    /\ resource_locks' = UnregisterLocks(resource_locks, agent_id)
    /\ wlast' = Returned("unregister", None, agent_id, None)
    /\ UNCHANGED <<current_hlc_time, wpc, wcall, snapshots, notWorld>>

\* set_resource_state: with hlc_time None the clock advances first, also when
\* the call is then refused; _update_resource_state stores nothing.
SetResourceState(t, resource, state, agent_id, explicit_hlc) ==
    /\ wpc[t] = "idle"
    /\ IF explicit_hlc
       THEN UNCHANGED current_hlc_time
       ELSE /\ current_hlc_time < MaxHlc
            /\ current_hlc_time' = AdvanceHlc(current_hlc_time)
    /\ wlast' = SetStateReturned(resource, state, agent_id,
                                 SetStateReturns(resource_locks, resource, agent_id))
    /\ UNCHANGED <<resource_locks, active_agents, wpc, wcall, snapshots, notWorld>>

\* Number of get_world_state calls.
MaxSnapshots == 2

\* The `resources` list callers pass to get_world_state, as the set of its
\* elements (the list only feeds dict keys and membership tests): "db", which
\* _get_resource_state has a simulated state for, and "queue", which it has
\* none for.
SnapshotResourceLists == {{"db", "queue"}}

\* The hlc_time argument: None, or the string of a number of clock ticks
\* ("3150.2" is 31502 ticks of 0.1).  float(str(x)) = x for every float, so the
\* clock is kept as the number its string stands for.
NoHlcTime == 0 - 1
HlcTimeArgs == {NoHlcTime, 31502}

\* _get_resource_state: the simulated states (hit_rate 0.92 in hundredths)
DbState == [connections |-> 10, active_queries |-> 3, status |-> "healthy"]
CacheState == [memory_usage |-> "75%", hit_rate |-> 92, entries |-> 15000]

\* _get_resource_state
GetResourceState(resource, hlc_time) ==
    IF resource = "db" THEN DbState
    ELSE IF resource = "cache" THEN CacheState
    ELSE [status |-> "unknown", last_updated |-> hlc_time]

\* Mutant of RelevantLocks: every entry of the lock table is taken.
RelevantLocksUnfiltered(locks, resources) ==
    [r \in {x \in DOMAIN locks : locks[x] # None} |-> locks[r]]

\* get_world_state: relevant_locks, the entries of the lock table whose resource
\* is in `resources`
RelevantLocks(locks, resources) ==
    [r \in {x \in DOMAIN locks : locks[x] # None /\ x \in resources} |-> locks[r]]

\* Mutant of CopyOf: the snapshot is handed the manager's own list object.
AliasOf(list) == [shared |-> TRUE, items |-> list]

\* self._active_agents.copy(): a list object of the snapshot's own, holding the
\* items the manager's list holds at this moment
CopyOf(list) == [shared |-> FALSE, items |-> list]

\* The items of a list object a snapshot holds: its own, or, were the object
\* the manager's, those of the manager's list now.
Items(object, managers_list) ==
    IF object.shared THEN managers_list ELSE object.items

\* The WorldSnapshot get_world_state builds (creation_timestamp is wall-clock
\* time and is left out); uuid4 gives a snapshot_id no cached snapshot has.
WorldSnapshot(hlc_time, resources, agents, locks, snapshot_id) ==
    [hlc_time |-> hlc_time,
     resources |-> [r \in resources |-> GetResourceState(r, hlc_time)],
     active_agents |-> CopyOf(agents),
     resource_locks |-> RelevantLocks(locks, resources),
     snapshot_id |-> snapshot_id]

\* self._snapshots[snapshot_id] = snapshot
CacheSnapshot(cache, snapshot) == Append(cache, snapshot)

\* get_world_state: with hlc_time None the clock advances and stamps the
\* snapshot; the method has no suspension.
GetWorldState(t, resources, hlc_time) ==
    /\ wpc[t] = "idle"
    /\ Len(snapshots) < MaxSnapshots
    /\ LET stamp == IF hlc_time = NoHlcTime
                    THEN AdvanceHlc(current_hlc_time) ELSE hlc_time
           snapshot == WorldSnapshot(stamp, resources, active_agents,
                                     resource_locks, Len(snapshots) + 1)
       IN  /\ current_hlc_time' = IF hlc_time = NoHlcTime
                                  THEN stamp ELSE current_hlc_time
           /\ snapshots' = CacheSnapshot(snapshots, snapshot)
    /\ wlast' = Returned("get_world_state", None, None, None)
    /\ UNCHANGED <<resource_locks, active_agents, wpc, wcall, notWorld>>

WorldInit ==
    /\ resource_locks = [r \in Resources |-> None]
    /\ active_agents = <<>>
    /\ current_hlc_time = 0
    /\ wpc = [t \in Tasks |-> "idle"]
    /\ wcall = [t \in Tasks |-> NoCall]
    /\ wlast = NoReturn
    /\ snapshots = <<>>


(***************************************************************************)
(* Coordinator                                                             *)
(***************************************************************************)

\* The agent_id and action strings callers pass to intend, and the
\* affected_resources lists.
CoordAgents == {"a", "a_b"}
Actions == {"c", "b_c"}
ResourceLists == {{"db"}, {"db", "cache"}}

\* Number of intend calls.
MaxIntentions == 2

\* confidence_score=0.7, sample_count=10: the entry of a pattern first seen
DefaultConfidence == (7 * Scale) \div 10
DefaultSampleCount == 10
\* the step of _update_pattern_learning, 0.1, and its clamps 1.0 and 0.0
LearningStep == Scale \div 10
MaxConfidence == Scale
MinConfidence == 0

Min(x, y) == IF x < y THEN x ELSE y
Max(x, y) == IF x > y THEN x ELSE y

\* pattern_key = f"{agent_id}_{action}_resources"
PatternKey(agent_id, action) == agent_id \o "_" \o action \o "_resources"

PatternKeys == {PatternKey(a, act) : a \in CoordAgents, act \in Actions}

\* intention_ids are counted from 1; NoId is the None of an Intention that was
\* never registered.
NoId == 0

\* An Intention built by hand, never registered: intention_id is None.
NoIdIntention ==
    [agent_id |-> "a", action |-> "c", affected_resources |-> {"db"},
     intention_id |-> NoId, confidence |-> 0]

NoResult == [op |-> None, intention_id |-> NoId, outcome |-> None, reason |-> None,
             confidence |-> 0]

\* A key the cache does not hold.
NoEntry == [present |-> FALSE, confidence_score |-> 0, sample_count |-> 0]

\* An ActionResult returned by act; outcome "raised" stands for an exception
\* that reached the caller, with its type as the reason.
ActionResult(intention_id, outcome, reason) ==
    [op |-> "act", intention_id |-> intention_id, outcome |-> outcome,
     reason |-> reason, confidence |-> 0]

NotFoundReason == "Intention not found or expired"

\* get_pattern_confidence: the cache it leaves (a default entry when missing)
CacheWithDefault(cache, pattern_id) ==
    IF cache[pattern_id].present THEN cache
    ELSE [cache EXCEPT ![pattern_id] =
            [present |-> TRUE, confidence_score |-> DefaultConfidence,
             sample_count |-> DefaultSampleCount]]

\* Mutant of CachedConfidence: no default for a key the cache does not hold.
CachedConfidenceNoDefault(cache, pattern_id) == cache[pattern_id].confidence_score

\* get_pattern_confidence / _get_cached_pattern_confidence: the score returned
CachedConfidence(cache, pattern_id) ==
    CacheWithDefault(cache, pattern_id)[pattern_id].confidence_score

\* Mutant of UpdatePatternLearning: the success step applied without the cap.
UpdatePatternLearningNoClamp(cache, pattern_key, outcome) ==
    IF cache[pattern_key].present
    THEN [cache EXCEPT ![pattern_key] =
            [present |-> TRUE,
             confidence_score |-> @.confidence_score + LearningStep,
             sample_count |-> @.sample_count + 1]]
    ELSE cache

\* Mutant of UpdatePatternLearning: the entry is written from the values a
\* fresh entry has, as an update computed from a stale read would be.
UpdatePatternLearningStale(cache, pattern_key, outcome) ==
    IF cache[pattern_key].present
    THEN [cache EXCEPT ![pattern_key] =
            [present |-> TRUE,
             confidence_score |-> Min(MaxConfidence, DefaultConfidence + LearningStep),
             sample_count |-> DefaultSampleCount + 1]]
    ELSE cache

\* _update_pattern_learning
UpdatePatternLearning(cache, pattern_key, outcome) ==
    IF cache[pattern_key].present
    THEN [cache EXCEPT ![pattern_key] =
            [present |-> TRUE,
             confidence_score |->
                IF outcome = "success"
                THEN Min(MaxConfidence, @.confidence_score + LearningStep)
                ELSE Max(MinConfidence, @.confidence_score - LearningStep),
             sample_count |-> @.sample_count + 1]]
    ELSE cache

\* if intention.intention_id not in self._active_intentions
IntentionKnown(active, intention_id) == intention_id \in active

\* Mutant of RemoveIntention: the clean-up left out.
RemoveIntentionSkipped(active, intention_id) == active

\* self._active_intentions.pop(intention.intention_id, None)
RemoveIntention(active, intention_id) == active \ {intention_id}

\* intend: uuid4 gives an id no earlier intention has; the pattern confidence is
\* read (and defaulted) without suspension.
Intend(t, agent_id, action, affected_resources) ==
    /\ cpc[t] = "idle"
    /\ Len(issued) < MaxIntentions
    /\ LET intention_id == Len(issued) + 1
           pattern_key == PatternKey(agent_id, action)
           confidence == CachedConfidence(pattern_cache, pattern_key)
           intention == [agent_id |-> agent_id, action |-> action,
                         affected_resources |-> affected_resources,
                         intention_id |-> intention_id,
                         confidence |-> confidence]
       IN  /\ pattern_cache' = CacheWithDefault(pattern_cache, pattern_key)
           /\ issued' = Append(issued, intention)
           /\ active_intentions' = active_intentions \cup {intention_id}
           /\ clast' = [op |-> "intend", intention_id |-> intention_id,
                        outcome |-> None, reason |-> None,
                        confidence |-> confidence]
    /\ UNCHANGED <<cpc, ccall, successes, notCoordinator>>

\* act, from the call to the sleep inside _execute_action, or to its return
\* when the intention has no id or is not in the active table.
ActCall(t, intention) ==
    /\ cpc[t] = "idle"
    /\ IF intention.intention_id = NoId
       THEN /\ clast' = ActionResult(NoId, "raised", "ValueError")
            /\ UNCHANGED <<cpc, ccall>>
       ELSE IF ~IntentionKnown(active_intentions, intention.intention_id)
       THEN /\ clast' = ActionResult(intention.intention_id, "failure", NotFoundReason)
            /\ UNCHANGED <<cpc, ccall>>
       ELSE /\ cpc' = [cpc EXCEPT ![t] = "executing"]
            /\ ccall' = [ccall EXCEPT ![t] = intention]
            /\ UNCHANGED clast
    /\ UNCHANGED <<issued, active_intentions, pattern_cache, successes, notCoordinator>>

\* act, resumed when _execute_action is over: _execute_action only sleeps and
\* raises nothing, so the result is a success; the pattern is updated and the
\* intention popped.
ActFinish(t) ==
    /\ cpc[t] = "executing"
    /\ LET intention == ccall[t]
           pattern_key == PatternKey(intention.agent_id, intention.action)
       IN  /\ pattern_cache' = UpdatePatternLearning(pattern_cache, pattern_key, "success")
           /\ active_intentions' = RemoveIntention(active_intentions, intention.intention_id)
           /\ clast' = ActionResult(intention.intention_id, "success", None)
           /\ successes' = [successes EXCEPT ![intention.intention_id] = @ + 1]
    /\ cpc' = [cpc EXCEPT ![t] = "idle"]
    /\ ccall' = [ccall EXCEPT ![t] = NoIdIntention]
    /\ UNCHANGED <<issued, notCoordinator>>

\* get_pattern_confidence(pattern_id)
GetPatternConfidence(t, pattern_id) ==
    /\ cpc[t] = "idle"
    /\ pattern_cache' = CacheWithDefault(pattern_cache, pattern_id)
    /\ clast' = [op |-> "get_pattern_confidence", intention_id |-> NoId,
                 outcome |-> None, reason |-> None,
                 confidence |-> CachedConfidence(pattern_cache, pattern_id)]
    /\ UNCHANGED <<issued, active_intentions, cpc, ccall, successes, notCoordinator>>

CoordInit ==
    /\ issued = <<>>
    /\ active_intentions = {}
    /\ pattern_cache = [k \in PatternKeys |-> NoEntry]
    /\ cpc = [t \in Tasks |-> "idle"]
    /\ ccall = [t \in Tasks |-> NoIdIntention]
    /\ clast = NoResult
    /\ successes = [i \in 1..MaxIntentions |-> 0]

\* The Intention objects a caller can hand to act.
Intentions == {issued[i] : i \in 1..Len(issued)} \cup {NoIdIntention}

CoordNext ==
    \/ \E t \in Tasks, a \in CoordAgents, act \in Actions, rs \in ResourceLists :
            Intend(t, a, act, rs)
    \/ \E t \in Tasks, i \in Intentions : ActCall(t, i)
    \/ \E t \in Tasks : ActFinish(t)
    \/ \E t \in Tasks, k \in PatternKeys : GetPatternConfidence(t, k)


(***************************************************************************)
(* RealCoordinator and RealAlineaClient: intend and act over the backend   *)
(***************************************************************************)

\* The two classes that keep an _active_intentions table and post to a backend.
Clients == {"RealCoordinator", "RealAlineaClient"}

\* The intention_ids the backend hands out.
BackendIds == {"i1", "i2"}

\* What _request raises: TimeoutError, APIError (also for a network error) and
\* AuthenticationError.
RequestErrors == {"TimeoutError", "APIError", "AuthenticationError"}

NoRequest == [client |-> None, intention_id |-> None]

NoRealResult == [client |-> None, op |-> None, intention_id |-> None,
                 outcome |-> None, reason |-> None]

\* What a call of a backend client gave its caller: an Intention or an
\* ActionResult, or, with outcome "raised", an exception of type `reason`.
RealResult(client, op, intention_id, outcome, reason) ==
    [client |-> client, op |-> op, intention_id |-> intention_id,
     outcome |-> outcome, reason |-> reason]

\* intend, up to the await of the POST.
RealIntendCall(t, client) ==
    /\ rpc[t] = "idle"
    /\ rpc' = [rpc EXCEPT ![t] = "intend_request"]
    /\ rcall' = [rcall EXCEPT ![t] = [client |-> client, intention_id |-> None]]
    /\ UNCHANGED <<real_active, rlast, notBackend>>

\* intend, resumed with the backend's response: the intention is stored under
\* the intention_id of the response.
RealIntendResponse(t, intention_id) ==
    /\ rpc[t] = "intend_request"
    /\ real_active' = [real_active EXCEPT ![rcall[t].client] = @ \cup {intention_id}]
    /\ rlast' = RealResult(rcall[t].client, "intend", intention_id, None, None)
    /\ rpc' = [rpc EXCEPT ![t] = "idle"]
    /\ rcall' = [rcall EXCEPT ![t] = NoRequest]
    /\ UNCHANGED notBackend

\* act of RealCoordinator and of RealAlineaClient, up to the await of the POST:
\* an intention that is not in the table raises ValueError.
RealActCall(t, client, intention_id) ==
    /\ rpc[t] = "idle"
    /\ IF intention_id \notin real_active[client]
       THEN /\ rlast' = RealResult(client, "act", intention_id, "raised", "ValueError")
            /\ UNCHANGED <<rpc, rcall>>
       ELSE /\ rpc' = [rpc EXCEPT ![t] = "act_request"]
            /\ rcall' = [rcall EXCEPT ![t] =
                    [client |-> client, intention_id |-> intention_id]]
            /\ UNCHANGED rlast
    /\ UNCHANGED <<real_active, notBackend>>

\* act, resumed with the backend's response: the ActionResult carries the
\* outcome of the response, and the intention is popped.
RealActResponse(t, outcome) ==
    /\ rpc[t] = "act_request"
    /\ real_active' = [real_active EXCEPT ![rcall[t].client] =
                            @ \ {rcall[t].intention_id}]
    /\ rlast' = RealResult(rcall[t].client, "act", rcall[t].intention_id, outcome,
                           IF outcome = "failure" THEN "message" ELSE None)
    /\ rpc' = [rpc EXCEPT ![t] = "idle"]
    /\ rcall' = [rcall EXCEPT ![t] = NoRequest]
    /\ UNCHANGED notBackend

\* Mutant of RealRequestRaises: the clean-up runs although the request raised.
RealRequestRaisesPops(t, error) ==
    /\ rpc[t] \in {"intend_request", "act_request"}
    /\ real_active' = [real_active EXCEPT ![rcall[t].client] =
                            @ \ {rcall[t].intention_id}]
    /\ rlast' = RealResult(rcall[t].client,
                           IF rpc[t] = "act_request" THEN "act" ELSE "intend",
                           rcall[t].intention_id, "raised", error)
    /\ rpc' = [rpc EXCEPT ![t] = "idle"]
    /\ rcall' = [rcall EXCEPT ![t] = NoRequest]
    /\ UNCHANGED notBackend

\* intend or act, resumed with the exception _request raised: nothing catches
\* it, so it reaches the caller and the lines after the await never run.
RealRequestRaises(t, error) ==
    /\ rpc[t] \in {"intend_request", "act_request"}
    /\ rlast' = RealResult(rcall[t].client,
                           IF rpc[t] = "act_request" THEN "act" ELSE "intend",
                           rcall[t].intention_id, "raised", error)
    /\ rpc' = [rpc EXCEPT ![t] = "idle"]
    /\ rcall' = [rcall EXCEPT ![t] = NoRequest]
    /\ UNCHANGED <<real_active, notBackend>>

RealInit ==
    /\ real_active = [c \in Clients |-> {}]
    /\ rpc = [t \in Tasks |-> "idle"]
    /\ rcall = [t \in Tasks |-> NoRequest]
    /\ rlast = NoRealResult

RealNext ==
    \/ \E t \in Tasks, c \in Clients : RealIntendCall(t, c)
    \/ \E t \in Tasks, i \in BackendIds : RealIntendResponse(t, i)
    \/ \E t \in Tasks, c \in Clients, i \in BackendIds \cup {None} :
            RealActCall(t, c, i)
    \/ \E t \in Tasks, o \in {"success", "failure"} : RealActResponse(t, o)
    \/ \E t \in Tasks, e \in RequestErrors : RealRequestRaises(t, e)


(***************************************************************************)
(* MemoryManager                                                           *)
(***************************************************************************)

PatternIds == {"p1", "p2"}

\* Number of record_surprise calls on stored patterns.
MaxSurprises == 6

\* self._surprise_threshold = 0.3
SurpriseThreshold == (3 * Scale) \div 10

\* if len(pattern.surprise_events) > 5
MaxSurpriseEvents == 5

\* pattern.surprise_events[-2:]
KeptSurpriseEvents == 2

\* A dict: a function from the keys it holds; dict.get gives None for the rest.
EmptyDict == [k \in {} |-> None]
Get(dict, key) == IF key \in DOMAIN dict THEN dict[key] ELSE None

\* The arguments callers give store_pattern.
PatternTypes == {"task_execution"}
TriggerConditions == {[resources |-> "db", context |-> "high"]}
ExpectedOutcomes == {[result |-> "success"]}
\* confidence values of [0, 1]: 0.0, 0.5 (the default) and 1.0
UnitConfidences == {0, Scale \div 2, Scale}

\* The (expected_outcome, actual_outcome) pairs callers give record_surprise:
\* both empty, every key mismatched (the demo's pair, with the 'reason' key
\* only in actual), and three of ten keys mismatched, a magnitude of exactly
\* the threshold 0.3.
SurpriseCases ==
    { <<EmptyDict, EmptyDict>>,
      <<[result |-> "success"], [result |-> "failure", reason |-> "conflict"]>>,
      <<[a |-> "1", b |-> "1", c |-> "1", d |-> "1", e |-> "1", f |-> "1",
         g |-> "1", h |-> "1", i |-> "1", j |-> "1"],
        [a |-> "1", b |-> "1", c |-> "1", d |-> "1", e |-> "1", f |-> "1",
         g |-> "1", h |-> "2", i |-> "2", j |-> "2"]>> }
Contexts == {[expected_outcome |-> "success"]}

\* A pattern_id the memory does not hold.
NoPattern ==
    [present |-> FALSE, pattern_type |-> None, trigger_conditions |-> EmptyDict,
     expected_outcomes |-> EmptyDict, confidence |-> 0, usage_count |-> 0,
     last_accessed |-> 0, surprise_events |-> <<>>]

\* A call and what it returned: `matches` are the ids of the patterns that
\* get_pattern or find_matching_patterns returned, in order, and `removed` is
\* the count cleanup_old_patterns returned.
NoMemoryCall == [op |-> None, pattern_id |-> None, expected |-> EmptyDict,
                 actual |-> EmptyDict, context |-> EmptyDict,
                 pattern_type |-> None, matches |-> <<>>, removed |-> 0]

\* _calculate_surprise_magnitude
CalculateSurpriseMagnitude(expected, actual) ==
    IF DOMAIN expected = {} /\ DOMAIN actual = {} THEN 0
    ELSE LET all_keys == DOMAIN expected \cup DOMAIN actual
             differences ==
                 Cardinality({k \in all_keys : Get(expected, k) # Get(actual, k)})
         IN  Min(Scale, (differences * Scale) \div Cardinality(all_keys))

\* Mutant of SurpriseConfidence: the subtraction without its floor of 0.0.
SurpriseConfidenceNoFloor(confidence, surprise_magnitude) ==
    IF surprise_magnitude > SurpriseThreshold
    THEN confidence - surprise_magnitude \div 2
    ELSE confidence

\* Mutant of SurpriseConfidence: a magnitude equal to the threshold counts too.
SurpriseConfidenceAtThreshold(confidence, surprise_magnitude) ==
    IF surprise_magnitude >= SurpriseThreshold
    THEN Max(0, confidence - surprise_magnitude \div 2)
    ELSE confidence

\* record_surprise: the confidence after the threshold step
SurpriseConfidence(confidence, surprise_magnitude) ==
    IF surprise_magnitude > SurpriseThreshold
    THEN Max(0, confidence - surprise_magnitude \div 2)
    ELSE confidence

\* Mutant of RelearnConfidence: relearning starts over from the default 0.5.
RelearnConfidenceDefault(confidence) == Scale \div 2

\* _trigger_pattern_relearning: max(0.1, confidence * 0.5)
RelearnConfidence(confidence) == Max(Scale \div 10, confidence \div 2)

\* Mutant of RelearnEvents: the old surprises are cleared, all of them.
RelearnEventsCleared(events) == <<>>

\* Mutant of RelearnEvents: the two oldest events are kept.
RelearnEventsOldest(events) ==
    IF Len(events) <= KeptSurpriseEvents THEN events
    ELSE SubSeq(events, 1, KeptSurpriseEvents)

\* _trigger_pattern_relearning: surprise_events[-2:]
RelearnEvents(events) ==
    IF Len(events) <= KeptSurpriseEvents THEN events
    ELSE SubSeq(events, Len(events) - KeptSurpriseEvents + 1, Len(events))

\* record_surprise: the pattern it leaves (the event's timestamp is wall-clock
\* time and is left out)
SurprisedPattern(pattern, expected, actual, context) ==
    LET surprise_magnitude == CalculateSurpriseMagnitude(expected, actual)
        surprise_event == [expected |-> expected, actual |-> actual,
                           context |-> context,
                           surprise_magnitude |-> surprise_magnitude]
        events == Append(pattern.surprise_events, surprise_event)
        confidence == SurpriseConfidence(pattern.confidence, surprise_magnitude)
    IN  IF Len(events) > MaxSurpriseEvents
        THEN [pattern EXCEPT !.confidence = RelearnConfidence(confidence),
                             !.surprise_events = RelearnEvents(events)]
        ELSE [pattern EXCEPT !.confidence = confidence,
                             !.surprise_events = events]

\* self._patterns[pattern_id] = pattern: a new key goes to the end of the
\* dict, a key the dict holds keeps its place.
DictSet(order, key) == IF ListHas(order, key) THEN order ELSE Append(order, key)

\* store_pattern: a new MemoryPattern replaces whatever the id held
StorePattern(pattern_id, pattern_type, trigger_conditions, expected_outcomes, confidence) ==
    /\ patterns' = [patterns EXCEPT ![pattern_id] =
            [present |-> TRUE, pattern_type |-> pattern_type,
             trigger_conditions |-> trigger_conditions,
             expected_outcomes |-> expected_outcomes,
             confidence |-> confidence, usage_count |-> 0,
             last_accessed |-> utcnow, surprise_events |-> <<>>]]
    /\ pattern_order' = DictSet(pattern_order, pattern_id)
    /\ mlast' = [NoMemoryCall EXCEPT !.op = "store_pattern",
                                     !.pattern_id = pattern_id]
    /\ UNCHANGED <<surprise_calls, utcnow, notMemory>>

\* record_surprise, as one of at most `calls` calls on stored patterns
RecordSurpriseUpTo(calls, pattern_id, expected, actual, context) ==
    /\ IF ~patterns[pattern_id].present
       THEN UNCHANGED <<patterns, surprise_calls>>
       ELSE /\ surprise_calls < calls
            /\ surprise_calls' = surprise_calls + 1
            /\ patterns' = [patterns EXCEPT ![pattern_id] =
                    SurprisedPattern(@, expected, actual, context)]
    /\ mlast' = [NoMemoryCall EXCEPT !.op = "record_surprise",
                                     !.pattern_id = pattern_id,
                                     !.expected = expected, !.actual = actual]
    /\ UNCHANGED <<pattern_order, utcnow, notMemory>>

\* record_surprise
RecordSurprise(pattern_id, expected, actual, context) ==
    RecordSurpriseUpTo(MaxSurprises, pattern_id, expected, actual, context)

MemoryInit ==
    /\ patterns = [p \in PatternIds |-> NoPattern]
    /\ surprise_calls = 0
    /\ mlast = NoMemoryCall
    /\ pattern_order = <<>>
    /\ utcnow = 0

\* Uses of one pattern counted: get_pattern and find_matching_patterns stop
\* short of raising usage_count past it.
MaxUsage == 3

\* Days of wall-clock time that pass.
MaxDays == 2

\* self._pattern_decay_hours = 24
PatternDecayHours == 24

\* The clock is read a whole decay period apart, so that a pattern is found
\* younger than the period, exactly as old, and older.
ClockStep == PatternDecayHours

\* Relevance scores are held in tenths of the confidence unit, so that
\* confidence * 0.3 and usage_count / 10 are whole numbers.
RelevanceUnit == 10 * Scale

\* if relevance_score > 0.3
RelevanceThreshold == (3 * RelevanceUnit) \div 10

\* _calculate_pattern_relevance
CalculatePatternRelevance(pattern, context) ==
    LET pattern_keys == DOMAIN pattern.trigger_conditions
        context_keys == DOMAIN context
    IN  IF pattern_keys = {} THEN 0
        ELSE LET overlap == Cardinality(pattern_keys \cap context_keys)
                 relevance ==
                     (overlap * RelevanceUnit) \div Cardinality(pattern_keys)
                 confidence_boost == pattern.confidence * 3
                 usage_boost == Min(pattern.usage_count * Scale, 2 * Scale)
             IN  Min(RelevanceUnit, relevance + confidence_boost + usage_boost)

\* find_matching_patterns: if pattern_type and pattern.pattern_type != pattern_type
TypeFilterSkips(pattern, pattern_type) ==
    pattern_type # None /\ pattern.pattern_type # pattern_type

\* Mutant of Relevant: a relevance of exactly 0.3 is enough.
RelevantAtThreshold(relevance_score) == relevance_score >= RelevanceThreshold

\* find_matching_patterns: if relevance_score > 0.3
Relevant(relevance_score) == relevance_score > RelevanceThreshold

\* find_matching_patterns: the ids appended to matching_patterns, in the order
\* of the loop over self._patterns.values(); score[id] is the relevance_score
\* of pattern id.
MatchingPatterns(pats, order, score, pattern_type) ==
    SelectSeq(order, LAMBDA id : /\ ~TypeFilterSkips(pats[id], pattern_type)
                                 /\ Relevant(score[id]))

\* One step of the sort: list.sort is stable, and with reverse=True it still
\* leaves items of equal key in their original order, so an item goes behind
\* every item whose score is not smaller.
InsertByRelevance(sorted, id, score) ==
    LET n == Cardinality({i \in 1..Len(sorted) : score[sorted[i]] >= score[id]})
    IN  SubSeq(sorted, 1, n) \o <<id>> \o SubSeq(sorted, n + 1, Len(sorted))

\* Mutant of SortByRelevance: the list is returned as the loop built it.
SortByRelevanceSkipped(ids, score) == ids

\* matching_patterns.sort(key=lambda x: x[1], reverse=True)
RECURSIVE SortByRelevance(_, _)
SortByRelevance(ids, score) ==
    IF ids = <<>> THEN <<>>
    ELSE InsertByRelevance(SortByRelevance(SubSeq(ids, 1, Len(ids) - 1), score),
                           ids[Len(ids)], score)

\* Mutant of Accessed: the use is taken off the count.
AccessedCountsDown(pats, ids, now) ==
    [id \in DOMAIN pats |->
        IF \E i \in 1..Len(ids) : ids[i] = id
        THEN [pats[id] EXCEPT !.usage_count = @ - 1, !.last_accessed = now]
        ELSE pats[id]]

\* Mutant of Accessed: every stored pattern is counted as used.
AccessedAll(pats, ids, now) ==
    [id \in DOMAIN pats |->
        IF pats[id].present
        THEN [pats[id] EXCEPT !.usage_count = @ + 1, !.last_accessed = now]
        ELSE pats[id]]

\* pattern.usage_count += 1; pattern.last_accessed = datetime.utcnow().isoformat()
\* for the patterns `ids`.  isoformat strings of one century compare as the
\* instants do, so the stamp is kept as the instant.
Accessed(pats, ids, now) ==
    [id \in DOMAIN pats |->
        IF ListHas(ids, id)
        THEN [pats[id] EXCEPT !.usage_count = @ + 1, !.last_accessed = now]
        ELSE pats[id]]

\* get_pattern: _load_pattern returns None for an id the dict does not hold
GetPattern(pattern_id) ==
    /\ patterns[pattern_id].usage_count < MaxUsage
    /\ LET found == IF patterns[pattern_id].present THEN <<pattern_id>> ELSE <<>>
       IN  /\ patterns' = Accessed(patterns, found, utcnow)
           /\ mlast' = [NoMemoryCall EXCEPT !.op = "get_pattern",
                                            !.pattern_id = pattern_id,
                                            !.matches = found]
    /\ UNCHANGED <<surprise_calls, pattern_order, utcnow, notMemory>>

\* find_matching_patterns
FindMatchingPatterns(current_context, pattern_type) ==
    LET score == [id \in PatternIds |->
                     CalculatePatternRelevance(patterns[id], current_context)]
        matching_patterns ==
            MatchingPatterns(patterns, pattern_order, score, pattern_type)
    IN  /\ \A i \in 1..Len(matching_patterns) :
               patterns[matching_patterns[i]].usage_count < MaxUsage
        /\ patterns' = Accessed(patterns, matching_patterns, utcnow)
        /\ mlast' = [NoMemoryCall EXCEPT
                !.op = "find_matching_patterns",
                !.context = current_context,
                !.pattern_type = pattern_type,
                !.matches = SortByRelevance(matching_patterns, score)]
        /\ UNCHANGED <<surprise_calls, pattern_order, utcnow, notMemory>>

\* cleanup_old_patterns: pattern.confidence < 0.3
CleanupConfidence == (3 * Scale) \div 10

\* cleanup_old_patterns: pattern.usage_count < 3
CleanupUsage == 3

\* Mutant of Decayed: one of the three conditions is enough.
DecayedAny(pattern, now) ==
    \/ pattern.last_accessed < now - PatternDecayHours
    \/ pattern.confidence < CleanupConfidence
    \/ pattern.usage_count < CleanupUsage

\* cleanup_old_patterns: the condition of removal, against
\* cutoff_time = utcnow() - timedelta(hours=self._pattern_decay_hours)
Decayed(pattern, now) ==
    /\ pattern.last_accessed < now - PatternDecayHours
    /\ pattern.confidence < CleanupConfidence
    /\ pattern.usage_count < CleanupUsage

\* cleanup_old_patterns: patterns_to_remove
PatternsToRemove(pats, order, now) ==
    SelectSeq(order, LAMBDA id : Decayed(pats[id], now))

\* del self._patterns[pattern_id]
DictDel(order, keys) == SelectSeq(order, LAMBDA id : ~ListHas(keys, id))

\* cleanup_old_patterns
CleanupOldPatterns ==
    LET patterns_to_remove == PatternsToRemove(patterns, pattern_order, utcnow)
    IN  /\ patterns' = [id \in PatternIds |->
                IF ListHas(patterns_to_remove, id) THEN NoPattern
                ELSE patterns[id]]
        /\ pattern_order' = DictDel(pattern_order, patterns_to_remove)
        /\ mlast' = [NoMemoryCall EXCEPT !.op = "cleanup_old_patterns",
                                         !.removed = Len(patterns_to_remove)]
        /\ UNCHANGED <<surprise_calls, utcnow, notMemory>>

\* Wall-clock time passes between two calls.
TimePasses ==
    /\ utcnow < MaxDays * ClockStep
    /\ utcnow' = utcnow + ClockStep
    /\ UNCHANGED <<patterns, surprise_calls, mlast, pattern_order, notMemory>>

\* The arguments callers give the retrieval calls: patterns of two types, with
\* and without trigger keys, at confidences 0.2, 0.3 and 1.0 and, since
\* store_pattern takes any float, 1.5; contexts sharing none, one and both of
\* the trigger keys.
RecallTypes == {"task_execution", "coordination"}
TwoKeys == [resources |-> "db", context |-> "high"]
RecallPatterns ==
    { [pattern_type |-> "task_execution", trigger_conditions |-> TwoKeys,
       confidence |-> Scale \div 5],
      [pattern_type |-> "task_execution", trigger_conditions |-> TwoKeys,
       confidence |-> Scale],
      [pattern_type |-> "coordination", trigger_conditions |-> TwoKeys,
       confidence |-> (3 * Scale) \div 10],
      [pattern_type |-> "coordination", trigger_conditions |-> EmptyDict,
       confidence |-> Scale],
      [pattern_type |-> "coordination", trigger_conditions |-> TwoKeys,
       confidence |-> (3 * Scale) \div 2] }
RecallContexts ==
    {EmptyDict, [resources |-> "cache"], [resources |-> "db", context |-> "low"]}
RecallTypeArgs == {None} \cup RecallTypes

\* The MemoryManager as a store that is searched and cleaned up.
RecallNext ==
    \/ \E p \in PatternIds, new \in RecallPatterns, eo \in ExpectedOutcomes :
            StorePattern(p, new.pattern_type, new.trigger_conditions, eo,
                         new.confidence)
    \/ \E p \in PatternIds : GetPattern(p)
    \/ \E ctx \in RecallContexts, ty \in RecallTypeArgs :
            FindMatchingPatterns(ctx, ty)
    \/ CleanupOldPatterns
    \/ TimePasses

\* The MemoryManager with patterns stored at a confidence of [0, 1].
MemoryNext ==
    \/ \E p \in PatternIds, ty \in PatternTypes, tc \in TriggerConditions,
          eo \in ExpectedOutcomes, c \in UnitConfidences :
            StorePattern(p, ty, tc, eo, c)
    \/ \E p \in PatternIds, case \in SurpriseCases, ctx \in Contexts :
            RecordSurprise(p, case[1], case[2], ctx)

\* _calculate_surprise_magnitude on its own.  The outcome dicts map a key to
\* any value, None included.
OutcomeKeys == {"a", "b"}
OutcomeValues == {"1", "2", None}
OutcomeDicts == UNION {[keys -> OutcomeValues] : keys \in SUBSET OutcomeKeys}

NoMagnitude == [expected |-> EmptyDict, actual |-> EmptyDict,
                applied |-> FALSE, value |-> 0]

\* A call with the arguments of the state.
ApplySurpriseMagnitude ==
    /\ ~magnitude.applied
    /\ magnitude' = [magnitude EXCEPT
            !.applied = TRUE,
            !.value = CalculateSurpriseMagnitude(magnitude.expected,
                                                 magnitude.actual)]
    /\ UNCHANGED notFunction

FunctionInit == magnitude = NoMagnitude
FunctionArguments ==
    \E expected \in OutcomeDicts, actual \in OutcomeDicts :
        magnitude = [NoMagnitude EXCEPT !.expected = expected,
                                        !.actual = actual]

(***************************************************************************)
(* CausalityAnalyzer                                                       *)
(***************************************************************************)

\* Event and change identifiers, each written as its parts between the
\* underscores (source_change.split("_")): "agent_42_failure",
\* "quickstart_agent", "agent_12_change", "deploy".
TargetEvents == {<<"agent", "42", "failure">>, <<"quickstart", "agent">>}
SourceChanges == {<<"agent", "12", "change">>, <<"deploy">>}
NoKey == <<>>

\* `word in identifier`; in the identifiers above the word is a whole part.
Contains(identifier, word) == \E i \in 1..Len(identifier) : identifier[i] = word

\* A CausalPath and an ImpactAnalysis object; `object` tells one constructed
\* object from another, and 0 is no object.
NoPath == [object |-> 0, target_event |-> NoKey, path |-> <<>>,
           confidence |-> 0, total_impact_score |-> 0]
NoImpact == [object |-> 0, source_agent |-> NoKey, source_action |-> NoKey,
             affected_agents |-> <<>>, impact_score |-> 0,
             propagation_time |-> 0]

\* A task that is in no counterfactual_analysis call.
NoCounterfactual == [pending |-> FALSE, original_event |-> NoKey]

NoAnalysis == [op |-> None, key |-> NoKey, causal_path |-> NoPath,
               impact_analysis |-> NoImpact]

\* _simulate_causal_trace: the CausalNodes, by agent_id, action and
\* causal_strength
SimulateCausalTrace(target_event) ==
    IF Contains(target_event, "failure")
    THEN << [agent_id |-> "agent_40", action |-> "resource_allocation",
             causal_strength |-> (3 * Scale) \div 10],
            [agent_id |-> "agent_41", action |-> "data_processing",
             causal_strength |-> (6 * Scale) \div 10],
            [agent_id |-> "agent_42", action |-> "final_computation",
             causal_strength |-> (9 * Scale) \div 10] >>
    ELSE <<>>

\* sum(node.causal_strength for node in causal_nodes)
RECURSIVE TotalImpact(_)
TotalImpact(causal_nodes) ==
    IF causal_nodes = <<>> THEN 0
    ELSE causal_nodes[1].causal_strength + TotalImpact(Tail(causal_nodes))

\* _find_affected_agents
FindAffectedAgents(source_change) ==
    IF Contains(source_change, "change")
    THEN <<"agent_13", "agent_14", "agent_15">>
    ELSE <<"agent_42", "agent_43">>

\* analyze_impact: source_agent, the first two parts when there are two
SourceAgent(source_change) ==
    IF Len(source_change) >= 2 THEN SubSeq(source_change, 1, 2)
    ELSE source_change

\* Mutant of InCache: the cache is never consulted.
InCacheNever(cache, key) == FALSE

\* if target_event in self._causal_cache
InCache(cache, key) == cache[key].object # 0

\* trace_causality
TraceCausality(target_event) ==
    /\ IF InCache(causal_cache, target_event)
       THEN /\ klast' = [NoAnalysis EXCEPT
                    !.op = "trace_causality", !.key = target_event,
                    !.causal_path = causal_cache[target_event]]
            /\ UNCHANGED <<causal_cache, allocated>>
       ELSE LET causal_nodes == SimulateCausalTrace(target_event)
                causal_path ==
                    [object |-> allocated + 1,
                     target_event |-> target_event,
                     path |-> causal_nodes,
                     confidence |-> (85 * Scale) \div 100,
                     total_impact_score |-> TotalImpact(causal_nodes)]
            IN  /\ allocated' = allocated + 1
                /\ causal_cache' =
                       [causal_cache EXCEPT ![target_event] = causal_path]
                /\ klast' = [NoAnalysis EXCEPT
                       !.op = "trace_causality", !.key = target_event,
                       !.causal_path = causal_path]
    /\ UNCHANGED <<impact_cache, kpc, notCausality>>

\* analyze_impact (impact_details is one fixed dict and is left out)
AnalyzeImpact(source_change) ==
    /\ IF InCache(impact_cache, source_change)
       THEN /\ klast' = [NoAnalysis EXCEPT
                    !.op = "analyze_impact", !.key = source_change,
                    !.impact_analysis = impact_cache[source_change]]
            /\ UNCHANGED <<impact_cache, allocated>>
       ELSE LET impact_analysis ==
                    [object |-> allocated + 1,
                     source_agent |-> SourceAgent(source_change),
                     source_action |-> source_change,
                     affected_agents |-> FindAffectedAgents(source_change),
                     impact_score |-> (7 * Scale) \div 10,
                     propagation_time |-> (5 * Scale) \div 2]
            IN  /\ allocated' = allocated + 1
                /\ impact_cache' =
                       [impact_cache EXCEPT ![source_change] = impact_analysis]
                /\ klast' = [NoAnalysis EXCEPT
                       !.op = "analyze_impact", !.key = source_change,
                       !.impact_analysis = impact_analysis]
    /\ UNCHANGED <<causal_cache, kpc, notCausality>>

\* counterfactual_analysis up to the sleep of _calculate_probability_difference
CounterfactualCall(t, original_event) ==
    /\ ~kpc[t].pending
    /\ kpc' = [kpc EXCEPT ![t] = [pending |-> TRUE,
                                  original_event |-> original_event]]
    /\ klast' = [NoAnalysis EXCEPT !.op = "counterfactual_analysis_called",
                                   !.key = original_event]
    /\ UNCHANGED <<causal_cache, impact_cache, allocated, notCausality>>

\* counterfactual_analysis from the sleep on: it builds its result from
\* constants and touches neither cache
CounterfactualReturn(t) ==
    /\ kpc[t].pending
    /\ kpc' = [kpc EXCEPT ![t] = NoCounterfactual]
    /\ klast' = [NoAnalysis EXCEPT !.op = "counterfactual_analysis",
                                   !.key = kpc[t].original_event]
    /\ UNCHANGED <<causal_cache, impact_cache, allocated, notCausality>>

CausalityInit ==
    /\ causal_cache = [e \in TargetEvents |-> NoPath]
    /\ impact_cache = [c \in SourceChanges |-> NoImpact]
    /\ allocated = 0
    /\ kpc = [t \in Tasks |-> NoCounterfactual]
    /\ klast = NoAnalysis

CausalityNext ==
    \/ \E e \in TargetEvents : TraceCausality(e)
    \/ \E c \in SourceChanges : AnalyzeImpact(c)
    \/ \E t \in Tasks, e \in TargetEvents : CounterfactualCall(t, e)
    \/ \E t \in Tasks : CounterfactualReturn(t)

(***************************************************************************)
(* DemoAgent.process_task                                                  *)
(***************************************************************************)

\* The `resources` lists of the tasks: one resource, the other one, both, both
\* in the opposite order, and one resource twice.
DemoResourceLists ==
    {<<"db">>, <<"cache">>, <<"db", "cache">>, <<"cache", "db">>, <<"db", "db">>}

\* timeout_seconds=5.0, as a number of poll intervals
DemoTimeout == MaxTimeout

\* A task that runs no process_task call.
NoProcess == [pc |-> "none", agent_id |-> None, resources |-> <<>>,
              resource |-> 0, locks_acquired |-> <<>>]

\* process_task(task_id, resources, context) of DemoAgent(agent_id), about to
\* start.
Process(agent_id, resources) ==
    [pc |-> "intend", agent_id |-> agent_id, resources |-> resources,
     resource |-> 1, locks_acquired |-> <<>>]

\* Mutant of LocksAcquired: the resource is appended whatever acquire returned.
LocksAcquiredAlways(locks_acquired, resource, acquired) ==
    Append(locks_acquired, resource)

\* if await acquire_resource_lock(...): locks_acquired.append(resource)
LocksAcquired(locks_acquired, resource, acquired) ==
    IF acquired THEN Append(locks_acquired, resource) ELSE locks_acquired

\* The task after acquire_resource_lock returned `acquired` for the resource
\* its loop is at: the loop goes on, or the try block starts.
AfterAcquire(process, acquired) ==
    [process EXCEPT
        !.locks_acquired =
            LocksAcquired(@, process.resources[process.resource], acquired),
        !.resource = @ + 1,
        !.pc = IF process.resource < Len(process.resources)
               THEN "acquire" ELSE "act"]

\* Step 1: client.intend.  The Coordinator shares no state with the lock
\* table and intend has no failing path, so only the task moves on.
DemoIntend(t) ==
    /\ demo[t].pc = "intend"
    /\ demo' = [demo EXCEPT ![t].pc = "acquire"]
    /\ UNCHANGED <<wvars, notWorld>>

\* Step 2: the acquire_resource_lock call of the loop, up to its first sleep
\* or its return
DemoAcquireCall(t) ==
    /\ demo[t].pc = "acquire"
    /\ AcquireCall(t, demo[t].resources[demo[t].resource], demo[t].agent_id,
                   DemoTimeout)
    /\ demo' = [demo EXCEPT ![t] =
            IF wpc'[t] = "acquire" THEN [@ EXCEPT !.pc = "acquiring"]
            ELSE AfterAcquire(@, wlast'.value)]

\* Step 2: the call resumed after a sleep
DemoAcquirePoll(t) ==
    /\ demo[t].pc = "acquiring"
    /\ AcquirePoll(t)
    /\ demo' = [demo EXCEPT ![t] =
            IF wpc'[t] = "acquire" THEN @ ELSE AfterAcquire(@, wlast'.value)]

\* Step 3: client.act up to the sleep of _execute_action
DemoActCall(t) ==
    /\ demo[t].pc = "act"
    /\ demo' = [demo EXCEPT ![t].pc = "acting"]
    /\ UNCHANGED <<wvars, notWorld>>

\* finally: release_resource_lock on each of locks_acquired
RECURSIVE ReleaseAcquired(_, _, _)
ReleaseAcquired(locks, locks_acquired, agent_id) ==
    IF locks_acquired = <<>> THEN locks
    ELSE ReleaseAcquired(ReleaseLocks(locks, Head(locks_acquired), agent_id),
                         Tail(locks_acquired), agent_id)

\* Step 3 resumed, and step 4: act returns its result for the intention just
\* registered, store_pattern or record_surprise writes to the MemoryManager
\* only, and the finally block releases the locks without a suspension.
DemoActReturn(t) ==
    /\ demo[t].pc = "acting"
    /\ resource_locks' = ReleaseAcquired(resource_locks, demo[t].locks_acquired,
                                         demo[t].agent_id)
    /\ wlast' = IF demo[t].locks_acquired = <<>> THEN wlast
                ELSE LET last == demo[t].locks_acquired[Len(demo[t].locks_acquired)]
                         before == ReleaseAcquired(resource_locks,
                                       SubSeq(demo[t].locks_acquired, 1,
                                              Len(demo[t].locks_acquired) - 1),
                                       demo[t].agent_id)
                     IN  Returned("release", last, demo[t].agent_id,
                                  ReleaseReturns(before, last, demo[t].agent_id))
    /\ demo' = [demo EXCEPT ![t].pc = "done"]
    /\ UNCHANGED <<active_agents, current_hlc_time, wpc, wcall, snapshots, notWorld>>

\* One step of the process_task call of task t.
DemoStep(t) ==
    \/ DemoIntend(t)
    \/ DemoAcquireCall(t)
    \/ DemoAcquirePoll(t)
    \/ DemoActCall(t)
    \/ DemoActReturn(t)

\* No process_task call runs.
DemoIdle == demo = [t \in Tasks |-> NoProcess]

\* asyncio.gather over one process_task call per task, of any agent, on any of
\* the resource lists.
DemoGathered ==
    demo \in [Tasks -> {Process(a, rs) : a \in Agents, rs \in DemoResourceLists}]

DemoNext ==
    \/ \E t \in Tasks : DemoIntend(t)
    \/ \E t \in Tasks : DemoAcquireCall(t)
    \/ \E t \in Tasks : DemoAcquirePoll(t)
    \/ \E t \in Tasks : DemoActCall(t)
    \/ \E t \in Tasks : DemoActReturn(t)
    \/ Tick /\ UNCHANGED dvars

\* The event loop runs every task that can run, and time passes.
DemoFairness ==
    /\ WF_vars(Tick /\ UNCHANGED dvars)
    /\ \A t \in Tasks : WF_vars(DemoStep(t))

\* Fresh components, and the tasks run_demo has just gathered.
DemoInit ==
    /\ WorldInit /\ CoordInit /\ RealInit /\ MemoryInit /\ FunctionInit
    /\ CausalityInit /\ DemoGathered

FairDemoSpec == DemoInit /\ [][DemoNext]_vars /\ DemoFairness

Init ==
    /\ WorldInit /\ CoordInit /\ RealInit /\ MemoryInit /\ FunctionInit
    /\ CausalityInit /\ DemoIdle

Next ==
    \/ \E t \in Tasks, r \in Resources, a \in Agents, T \in Timeouts :
            AcquireCall(t, r, a, T)
            /\ UNCHANGED dvars
    \/ \E t \in Tasks : AcquirePoll(t)
            /\ UNCHANGED dvars
    \/ Tick
            /\ UNCHANGED dvars
    \/ \E t \in Tasks, r \in Resources, a \in Agents : ReleaseResourceLock(t, r, a)
            /\ UNCHANGED dvars
    \/ \E t \in Tasks, a \in Agents : RegisterAgent(t, a)
            /\ UNCHANGED dvars
    \/ \E t \in Tasks, a \in Agents : UnregisterAgent(t, a)
            /\ UNCHANGED dvars
    \/ \E t \in Tasks, r \in Resources, s \in States, a \in Agents, e \in BOOLEAN :
            SetResourceState(t, r, s, a, e)
            /\ UNCHANGED dvars

Spec == Init /\ [][Next]_vars

\* The event loop resumes a task whose sleep is over, and time passes.
Fairness ==
    /\ WF_vars(Tick /\ UNCHANGED dvars)
    /\ \A t \in Tasks : WF_vars(AcquirePoll(t) /\ UNCHANGED dvars)

FairSpec == Init /\ [][Next]_vars /\ Fairness

\* The calls that read or write the lock table or a pending acquire: register_agent
\* and set_resource_state do neither (set_resource_state reads the table and
\* writes only the clock).
LockNext ==
    \/ \E t \in Tasks, r \in Resources, a \in Agents, T \in Timeouts :
            AcquireCall(t, r, a, T)
            /\ UNCHANGED dvars
    \/ \E t \in Tasks : AcquirePoll(t)
            /\ UNCHANGED dvars
    \/ Tick
            /\ UNCHANGED dvars
    \/ \E t \in Tasks, r \in Resources, a \in Agents : ReleaseResourceLock(t, r, a)
            /\ UNCHANGED dvars
    \/ \E t \in Tasks, a \in Agents : UnregisterAgent(t, a)
            /\ UNCHANGED dvars

FairLockSpec == Init /\ [][LockNext]_vars /\ Fairness

\* The WorldStateManager as one caller after another uses it, snapshots
\* included: get_world_state has no suspension, so no other task runs inside
\* it.  The calls are about one resource that both agents lock and write, and
\* one agent registers.
Callers == {"t1"}
SharedResources == {"db"}
Registrants == {"agent_1"}

SnapshotNext ==
    \/ \E t \in Callers, rs \in SnapshotResourceLists, h \in HlcTimeArgs :
            GetWorldState(t, rs, h)
            /\ UNCHANGED dvars
    \/ \E t \in Callers, r \in SharedResources, s \in States, a \in Agents,
          e \in BOOLEAN :
            SetResourceState(t, r, s, a, e)
            /\ UNCHANGED dvars
    \/ \E t \in Callers, r \in SharedResources, a \in Agents :
            AcquireCall(t, r, a, MaxTimeout)
            /\ UNCHANGED dvars
    \/ \E t \in Callers : AcquirePoll(t)
            /\ UNCHANGED dvars
    \/ Tick
            /\ UNCHANGED dvars
    \/ \E t \in Callers, r \in SharedResources, a \in Agents :
            ReleaseResourceLock(t, r, a)
            /\ UNCHANGED dvars
    \/ \E t \in Callers, a \in Registrants : RegisterAgent(t, a)
            /\ UNCHANGED dvars
    \/ \E t \in Callers, a \in Registrants : UnregisterAgent(t, a)
            /\ UNCHANGED dvars

SpecSnapshot == Init /\ [][SnapshotNext]_vars

\* A snapshot taken by one task while the other task is inside a call: both
\* tasks lock, release, register and unregister, and one of them takes the
\* first snapshot at some moment, with an explicit hlc_time, so that the clock
\* stands still.
ExplicitHlcTimes == HlcTimeArgs \ {NoHlcTime}

ConcurrentSnapshotNext ==
    \/ \E t \in Tasks, rs \in SnapshotResourceLists, h \in ExplicitHlcTimes :
            snapshots = <<>> /\ GetWorldState(t, rs, h)
            /\ UNCHANGED dvars
    \/ \E t \in Tasks, r \in Resources, a \in Agents :
            AcquireCall(t, r, a, MaxTimeout)
            /\ UNCHANGED dvars
    \/ \E t \in Tasks : AcquirePoll(t)
            /\ UNCHANGED dvars
    \/ Tick
            /\ UNCHANGED dvars
    \/ \E t \in Tasks, r \in Resources, a \in Agents :
            ReleaseResourceLock(t, r, a)
            /\ UNCHANGED dvars
    \/ \E t \in Tasks, a \in Registrants : RegisterAgent(t, a)
            /\ UNCHANGED dvars
    \/ \E t \in Tasks, a \in Registrants : UnregisterAgent(t, a)
            /\ UNCHANGED dvars

SpecConcurrentSnapshot == Init /\ [][ConcurrentSnapshotNext]_vars

SpecCoord == Init /\ [][CoordNext]_vars

\* The Coordinator with every intention on one resource list: act and the
\* pattern learner never read affected_resources (coordinator.py:74-129,
\* :206-220), so the list changes no step of theirs.
LearningResources == {"db", "cache"}

CoordLearningNext ==
    \/ \E t \in Tasks, a \in CoordAgents, act \in Actions :
            Intend(t, a, act, LearningResources)
    \/ \E t \in Tasks, i \in Intentions : ActCall(t, i)
    \/ \E t \in Tasks : ActFinish(t)
    \/ \E t \in Tasks, k \in PatternKeys : GetPatternConfidence(t, k)

SpecCoordLearning == Init /\ [][CoordLearningNext]_vars

SpecReal == Init /\ [][RealNext]_vars

SpecMemory == Init /\ [][MemoryNext]_vars

SpecRecall == Init /\ [][RecallNext]_vars

\* One pattern under surprise after surprise.  The confidence store_pattern is
\* given is stored as it is: -0.2, 0.0, 0.05, 0.1, 0.5, 1.0 and 1.5.
DecayConfidences ==
    {0 - Scale \div 5, 0, Scale \div 20, Scale \div 10, Scale \div 2, Scale,
     (3 * Scale) \div 2}

DecayNext ==
    \/ \E ty \in PatternTypes, tc \in TriggerConditions, eo \in ExpectedOutcomes,
          c \in DecayConfidences :
            StorePattern("p1", ty, tc, eo, c)
    \/ \E p \in PatternIds, case \in SurpriseCases, ctx \in Contexts :
            RecordSurprise(p, case[1], case[2], ctx)

SpecDecay == Init /\ [][DecayNext]_vars

\* Number of record_surprise calls on one stored pattern: enough for relearning
\* to fire twice.
MaxRecorded == 10

\* One pattern, stored once, and the surprises recorded on it.
SurpriseNext ==
    \/ \E ty \in PatternTypes, tc \in TriggerConditions, eo \in ExpectedOutcomes,
          c \in UnitConfidences :
            ~patterns["p1"].present /\ StorePattern("p1", ty, tc, eo, c)
    \/ \E case \in SurpriseCases, ctx \in Contexts :
            RecordSurpriseUpTo(MaxRecorded, "p1", case[1], case[2], ctx)

SpecSurprise == Init /\ [][SurpriseNext]_vars

SpecCausality == Init /\ [][CausalityNext]_vars

\* The two pattern learners, the Coordinator's cache and the MemoryManager.
\* The two objects share no state, so every behaviour of the pair is an
\* interleaving of a behaviour of each, and each state of one occurs next to the
\* start state of the other: it is enough to run one of them at a time.
CoordinatorUntouched == clast = NoResult
MemoryUntouched == mlast = NoMemoryCall

LearnNext ==
    \/ MemoryUntouched /\ CoordNext
    \/ CoordinatorUntouched /\ MemoryNext

SpecLearn == Init /\ [][LearnNext]_vars

\* _calculate_surprise_magnitude applied to every pair of outcome dicts.
MagnitudeInit ==
    /\ WorldInit /\ CoordInit /\ RealInit /\ MemoryInit /\ CausalityInit
    /\ DemoIdle /\ FunctionArguments

SpecMagnitude == MagnitudeInit /\ [][ApplySurpriseMagnitude]_vars

(***************************************************************************)
(* Properties of the WorldStateManager                                     *)
(***************************************************************************)

\* This step is the return of acquire_resource_lock(resource, agent_id, timeout)
\* with `value`.
AcquireReturnStep(resource, agent_id, timeout, value) ==
    /\ wlast' = AcquireReturned(resource, agent_id, timeout, value)
    /\ \/ wlast' # wlast
       \/ \E t \in Tasks : wpc[t] = "acquire" /\ wpc'[t] = "idle"

\* This step is the return of the call `ret`, which takes no suspension.
ReturnStep(ret) == wlast' = ret /\ wlast' # wlast

\* C1: under every interleaving of acquire, release, unregister and
\* set_resource_state, a resource that has a holder keeps that holder until it
\* is unlocked (it never passes to a second holder), and acquire_resource_lock
\* returns True only in a step that starts with the resource held by nobody,
\* the caller included, and ends with the caller as its holder.
C1_SingleHolder ==
    [][ /\ \A r \in Resources :
              resource_locks[r] # None =>
                  resource_locks'[r] \in {resource_locks[r], None}
        /\ \A r \in Resources, a \in Agents, T \in Timeouts :
              AcquireReturnStep(r, a, T, TRUE) =>
                  /\ resource_locks[r] = None
                  /\ resource_locks'[r] = a
      ]_vars

\* C1 witness: an agent was granted a resource that another agent's pending
\* acquire is polling for.
C1_Witness ==
    \E r \in Resources, a \in Agents, t \in Tasks :
        /\ wlast = AcquireReturned(r, a, MaxTimeout, TRUE)
        /\ resource_locks[r] = a
        /\ wpc[t] = "acquire"
        /\ wcall[t].resource = r
        /\ wcall[t].agent_id # a
        /\ ~wcall[t].asleep

\* C4: of two acquire calls on a resource, a call on a free resource is granted
\* at once (a call suspends only when the resource is held); a call returns
\* True only in a step that starts with the resource unlocked, so never while an
\* earlier grant is still held; and a call returns False only when its own
\* timeout has elapsed, leaving the lock table as it was.
C4_ConcurrentAcquire ==
    [][ /\ \A t \in Tasks :
              (wpc[t] = "idle" /\ wpc'[t] = "acquire") =>
                  /\ resource_locks[wcall'[t].resource] # None
                  /\ resource_locks' = resource_locks
        /\ \A t \in Tasks :
              (wpc[t] = "acquire" /\ wpc'[t] = "idle") =>
                  LET c == wcall[t] IN
                  \/ /\ wlast' = AcquireReturned(c.resource, c.agent_id, c.timeout, TRUE)
                     /\ resource_locks[c.resource] = None
                     /\ resource_locks' = [resource_locks EXCEPT ![c.resource] = c.agent_id]
                  \/ /\ wlast' = AcquireReturned(c.resource, c.agent_id, c.timeout, FALSE)
                     /\ c.elapsed >= c.timeout
                     /\ resource_locks' = resource_locks
        /\ \A r \in Resources, a \in Agents, T \in Timeouts :
              (AcquireReturnStep(r, a, T, FALSE) /\ wpc' = wpc) => T = 0
      ]_vars

\* C4 witness: a caller that found the resource held and waited is resumed
\* within its timeout after the holder let go: its next poll is granted.
C4_Witness ==
    \E t \in Tasks :
        /\ wpc[t] = "acquire"
        /\ ~wcall[t].asleep
        /\ wcall[t].elapsed < wcall[t].timeout
        /\ resource_locks[wcall[t].resource] = None
        /\ wlast.op \in {"release", "unregister"}

\* C8: when unregister_agent(A) returns, A is not in active_agents and holds no
\* lock, and the registrations and locks of every other agent are as before.
C8_UnregisterReleasesAll ==
    [][ \A a \in Agents :
            ReturnStep(Returned("unregister", None, a, None)) =>
                /\ ~ListHas(active_agents', a)
                /\ \A r \in Resources :
                      /\ resource_locks'[r] # a
                      /\ resource_locks[r] # a => resource_locks'[r] = resource_locks[r]
                /\ \A b \in Agents \ {a} :
                      ListHas(active_agents', b) <=> ListHas(active_agents, b)
      ]_vars

\* C8 witness: unregister_agent(A) has returned while another agent is
\* registered and holds a lock, and a caller that waited for a resource finds
\* it free.
C8_Witness ==
    \E a \in Agents, b \in Agents, r \in Resources, t \in Tasks :
        /\ wlast = Returned("unregister", None, a, None)
        /\ b # a
        /\ ListHas(active_agents, b)
        /\ resource_locks[r] = b
        /\ wpc[t] = "acquire"
        /\ resource_locks[wcall[t].resource] = None

\* C9: release_resource_lock(R, A) returns True and leaves R unlocked when R is
\* unlocked or held by A, and returns False with the lock table unchanged when
\* R is held by another agent; after a True return a second call by A returns
\* True again and changes nothing.
C9_ReleaseIdempotent ==
    [][ \A r \in Resources, a \in Agents, v \in BOOLEAN :
            ReturnStep(Returned("release", r, a, v)) =>
                /\ IF resource_locks[r] \in {None, a}
                   THEN /\ v = TRUE
                        /\ resource_locks' = [resource_locks EXCEPT ![r] = None]
                   ELSE /\ v = FALSE
                        /\ resource_locks' = resource_locks
                /\ v = TRUE =>
                      /\ ReleaseReturns(resource_locks', r, a) = TRUE
                      /\ ReleaseLocks(resource_locks', r, a) = resource_locks'
      ]_vars

\* C9 witness: a release by A returned True and left R unlocked while another
\* agent holds the other resource.
C9_Witness ==
    \E r \in Resources, r2 \in Resources, a \in Agents :
        /\ wlast = Returned("release", r, a, TRUE)
        /\ resource_locks[r] = None
        /\ resource_locks[r2] \notin {None, a}

\* C10: every pending acquire_resource_lock call eventually returns; a call
\* that returns while the resource is held returns False, and a False return
\* leaves the lock table unchanged.
C10_AcquireTerminates ==
    /\ \A t \in Tasks : (wpc[t] = "acquire") ~> (wpc[t] = "idle")
    /\ [][ \A t \in Tasks :
              (wpc[t] = "acquire" /\ wpc'[t] = "idle"
                  /\ resource_locks[wcall[t].resource] # None) =>
                  /\ wlast'.op = "acquire"
                  /\ wlast'.value = FALSE
                  /\ resource_locks' = resource_locks
          ]_vars

\* C10 witness: a pending call whose timeout has elapsed with the resource
\* still held by another agent.
C10_Witness ==
    \E t \in Tasks :
        /\ wpc[t] = "acquire"
        /\ wcall[t].elapsed >= wcall[t].timeout
        /\ resource_locks[wcall[t].resource] \notin {None, wcall[t].agent_id}

\* C11: set_resource_state(R, s, B) returns False exactly when R is locked by
\* an agent other than B, and True when R is held by B or by nobody; either way
\* the lock table is left as it was.
C11_HolderIsSoleMutator ==
    [][ (wlast' # wlast /\ wlast'.op = "set_state") =>
            LET r == wlast'.resource
                b == wlast'.agent_id
            IN  /\ wlast'.value = FALSE <=> resource_locks[r] \notin {None, b}
                /\ wlast'.value = TRUE <=> resource_locks[r] \in {None, b}
                /\ resource_locks' = resource_locks
      ]_vars

\* C11 witness: a set_resource_state by the holder of one resource was refused
\* on the other resource, which another agent holds.
C11_Witness ==
    \E r \in Resources, r2 \in Resources, a \in Agents, b \in Agents, s \in States :
        /\ a # b
        /\ wlast = SetStateReturned(r, s, b, FALSE)
        /\ resource_locks[r] = a
        /\ resource_locks[r2] = b

\* C12: locks are time-bounded.  Whatever the lifetime of a lock, a lock that
\* agent A holds for ever (A never releases it and is never unregistered) is
\* past its expiry from some moment on, and from then on no
\* acquire_resource_lock on it by another agent, called with a timeout that
\* lets it look at the lock, times out with False.
C12_ExpiredLockIsFree ==
    \A r \in Resources, a \in Agents :
        <>[](resource_locks[r] = a) =>
            <>[][~(\E b \in Agents \ {a} :
                      AcquireReturnStep(r, b, MaxTimeout, FALSE))]_vars

(***************************************************************************)
(* Properties of snapshots and of the clock                                *)
(***************************************************************************)

\* This step is a get_world_state call: it adds a snapshot to the cache.
SnapshotStep == Len(snapshots') = Len(snapshots) + 1

\* The snapshot the get_world_state call of this step returns, and the one the
\* call before it returned.
NewSnapshot == snapshots'[Len(snapshots')]
LastSnapshot == snapshots[Len(snapshots)]

\* C15: a snapshot taken right after another one, with the same resource list
\* and no other call in between, has the same resources and resource_locks
\* content as the first, with or without an explicit hlc_time.
C15_SnapshotIdempotent ==
    [][ (/\ SnapshotStep
         /\ wlast.op = "get_world_state"
         /\ DOMAIN NewSnapshot.resources = DOMAIN LastSnapshot.resources) =>
            /\ NewSnapshot.resources = LastSnapshot.resources
            /\ NewSnapshot.resource_locks = LastSnapshot.resource_locks
      ]_vars

\* C16: a cached snapshot keeps the hlc_time, resources, resource_locks and
\* active_agents it was built with through every later call, and no cached
\* snapshot is replaced or removed: the cache only grows, by one snapshot
\* under a snapshot_id it did not hold.
C16_SnapshotImmutable ==
    [][ /\ Len(snapshots') >= Len(snapshots)
        /\ \A i \in 1..Len(snapshots) :
              /\ snapshots'[i].snapshot_id = snapshots[i].snapshot_id
              /\ snapshots'[i].hlc_time = snapshots[i].hlc_time
              /\ snapshots'[i].resources = snapshots[i].resources
              /\ snapshots'[i].resource_locks = snapshots[i].resource_locks
              /\ Items(snapshots'[i].active_agents, active_agents')
                    = Items(snapshots[i].active_agents, active_agents)
        /\ SnapshotStep =>
              \A i \in 1..Len(snapshots) :
                  snapshots[i].snapshot_id # NewSnapshot.snapshot_id
      ]_vars

\* C16 witness: the first cached snapshot shows the resource unlocked and no
\* agent registered, while now the resource is locked and an agent is
\* registered, and a second snapshot has been cached since.
C16_Witness ==
    /\ Len(snapshots) = MaxSnapshots
    /\ DOMAIN snapshots[1].resource_locks = {}
    /\ Items(snapshots[1].active_agents, active_agents) = <<>>
    /\ \E r \in DOMAIN snapshots[1].resources \cap Resources :
          resource_locks[r] # None
    /\ active_agents # <<>>
    /\ snapshots[MaxSnapshots].resource_locks # snapshots[1].resource_locks

\* A snapshot that the clock stamped: its hlc_time is no caller's argument.
ClockStamped(snapshot) == snapshot.hlc_time \notin HlcTimeArgs

C18_SnapshotReadsWrittenState ==
    [][ (/\ SnapshotStep
         /\ wlast.op = "set_state"
         /\ wlast.value = TRUE
         /\ wlast.resource \in DOMAIN NewSnapshot.resources) =>
            NewSnapshot.resources[wlast.resource] = wlast.state
      ]_vars

(***************************************************************************)
(* Properties of the Coordinator                                           *)
(***************************************************************************)

IssuedIds == 1..Len(issued)

\* C2: for every intention_id at most one act call executes the action and
\* returns outcome success, whatever the interleaving of the act calls.
C2_AtMostOnce ==
    \A i \in IssuedIds : successes[i] <= 1

\* C3: act never has two intentions of different agents with overlapping
\* affected_resources in execution at the same time.
C3_OverlapSerialized ==
    \A t1 \in Tasks, t2 \in Tasks :
        (t1 # t2 /\ cpc[t1] = "executing" /\ cpc[t2] = "executing") =>
            \/ ccall[t1].agent_id = ccall[t2].agent_id
            \/ ccall[t1].affected_resources \cap ccall[t2].affected_resources = {}

\* This step is an act call on intention_id that passed no suspension: it
\* returned at once.
ActReturnsAtOnce(intention_id) ==
    /\ clast' # clast
    /\ clast'.op = "act"
    /\ clast'.intention_id = intention_id
    /\ cpc' = cpc

\* C5: an intention enters the active table when intend returns it and leaves
\* it only in the step in which an act on it finishes, which always removes it;
\* an act started on an intention that is no longer in the table returns
\* failure with reason 'Intention not found or expired', starts no execution
\* and leaves the pattern cache and the active table unchanged.
C5_IntentionLifetime ==
    [][ /\ \A i \in IssuedIds :
              (i \in active_intentions /\ i \notin active_intentions') =>
                  \E t \in Tasks :
                      /\ cpc[t] = "executing"
                      /\ ccall[t].intention_id = i
                      /\ cpc'[t] = "idle"
                      /\ clast'.op = "act"
                      /\ clast'.intention_id = i
                      /\ clast'.outcome \in {"success", "failure"}
        /\ \A t \in Tasks :
              (cpc[t] = "executing" /\ cpc'[t] = "idle") =>
                  ccall[t].intention_id \notin active_intentions'
        /\ Len(issued') > Len(issued) =>
              /\ clast'.op = "intend"
              /\ clast'.intention_id = Len(issued')
              /\ clast'.intention_id \notin IssuedIds
              /\ active_intentions' = active_intentions \cup {clast'.intention_id}
        /\ \A i \in IssuedIds :
              (i \notin active_intentions /\ ActReturnsAtOnce(i)) =>
                  /\ clast' = ActionResult(i, "failure", NotFoundReason)
                  /\ pattern_cache' = pattern_cache
                  /\ active_intentions' = active_intentions
                  /\ successes' = successes
      ]_vars

\* C5 witness: an act on an intention that an earlier act consumed has returned
\* the 'not found' failure, while another intention waits un-acted in the table.
C5_Witness ==
    \E i \in IssuedIds, j \in IssuedIds :
        /\ successes[i] = 1
        /\ i \notin active_intentions
        /\ clast = ActionResult(i, "failure", NotFoundReason)
        /\ j \in active_intentions
        /\ successes[j] = 0

\* This step is the return of an act call on intention_id.
ActReturnStep(intention_id) ==
    /\ clast'.op = "act"
    /\ clast'.intention_id = intention_id
    /\ \/ clast' # clast
       \/ \E t \in Tasks : cpc[t] = "executing" /\ cpc'[t] = "idle"

\* C13: intend on an (agent_id, action) whose pattern key the cache does not
\* hold returns an intention with an intention_id no earlier intention has,
\* registered in the active table, with the default confidence 0.7, which lies
\* within [0.5, 0.7]; an act on an intention that is in the active table is
\* executed, and the act that finishes returns outcome success.
C13_IntendWithoutPriorData ==
    [][ /\ \A a \in CoordAgents, act \in Actions :
              (/\ Len(issued') = Len(issued) + 1
               /\ issued'[Len(issued')].agent_id = a
               /\ issued'[Len(issued')].action = act
               /\ ~pattern_cache[PatternKey(a, act)].present) =>
                  LET intention == issued'[Len(issued')] IN
                  /\ clast'.op = "intend"
                  /\ clast'.intention_id = intention.intention_id
                  /\ intention.intention_id \notin IssuedIds
                  /\ intention.intention_id # NoId
                  /\ intention.intention_id \in active_intentions'
                  /\ intention.confidence = DefaultConfidence
                  /\ clast'.confidence = intention.confidence
                  /\ 2 * intention.confidence >= Scale
                  /\ 10 * intention.confidence <= 7 * Scale
        /\ \A i \in IssuedIds :
              (i \in active_intentions /\ ActReturnStep(i)) =>
                  /\ \E t \in Tasks : cpc[t] = "executing" /\ cpc'[t] = "idle"
                  /\ clast' = ActionResult(i, "success", None)
      ]_vars

\* C13 witness: the act on an intention that intend gave the default
\* confidence, its pattern key being new, has returned success.
C13_Witness ==
    \E i \in IssuedIds :
        /\ issued[i].confidence = DefaultConfidence
        /\ \A j \in IssuedIds :
              (j < i) => PatternKey(issued[j].agent_id, issued[j].action)
                            # PatternKey(issued[i].agent_id, issued[i].action)
        /\ clast = ActionResult(i, "success", None)
        /\ successes[i] = 1
        /\ i \notin active_intentions

\* C14: every act that returns feeds its outcome to the pattern learner: a
\* success raises the confidence of the intention's pattern key by 0.1, capped
\* at 1.0, and a failure lowers it by 0.1, floored at 0.0.
C14_OutcomeFedToLearner ==
    [][ \A i \in IssuedIds :
            ActReturnStep(i) =>
                LET k == PatternKey(issued[i].agent_id, issued[i].action)
                    c == pattern_cache[k].confidence_score
                IN  /\ clast'.outcome = "success" =>
                          pattern_cache'[k].confidence_score =
                              Min(MaxConfidence, c + LearningStep)
                    /\ clast'.outcome = "failure" =>
                          pattern_cache'[k].confidence_score =
                              Max(MinConfidence, c - LearningStep)
      ]_vars

(***************************************************************************)
(* Properties of act across its three implementations                      *)
(***************************************************************************)

\* C6: every act implementation gives its caller an ActionResult and never an
\* exception: no act call of Coordinator, RealCoordinator or RealAlineaClient
\* ends raised.
C6_ActNeverRaises ==
    /\ clast.op = "act" => clast.outcome # "raised"
    /\ rlast.op = "act" => rlast.outcome # "raised"

(***************************************************************************)
(* Properties of the pattern learners                                      *)
(***************************************************************************)

\* C7: every entry of the Coordinator's pattern cache, and every pattern the
\* MemoryManager stored with a confidence of [0, 1], has its confidence within
\* [0, 1] after any sequence of act outcomes and record_surprise calls, those
\* that trigger relearning included.
C7_ConfidenceInUnitRange ==
    /\ \A k \in PatternKeys :
          pattern_cache[k].present =>
              /\ pattern_cache[k].confidence_score >= 0
              /\ pattern_cache[k].confidence_score <= Scale
    /\ \A p \in PatternIds :
          patterns[p].present =>
              /\ patterns[p].confidence >= 0
              /\ patterns[p].confidence <= Scale

\* C7 witness: a pattern whose confidence surprises had brought down to 0.0
\* went through relearning, which left it at the floor 0.1 with the two most
\* recent events.
C7_Witness ==
    \E p \in PatternIds :
        /\ patterns[p].present
        /\ surprise_calls >= MaxSurpriseEvents + 1
        /\ Len(patterns[p].surprise_events) = KeptSurpriseEvents
        /\ patterns[p].surprise_events[1].surprise_magnitude = Scale
        /\ patterns[p].confidence = Scale \div 10

(***************************************************************************)
(* Properties of record_surprise                                           *)
(***************************************************************************)

\* This step is a record_surprise call that did something or that follows a
\* different call.
RecordSurpriseStep ==
    /\ mlast'.op = "record_surprise"
    /\ mlast' # mlast \/ patterns' # patterns

\* The event record_surprise builds from its arguments in this step.
SurpriseEvent ==
    [expected |-> mlast'.expected, actual |-> mlast'.actual,
     context |-> CHOOSE ctx \in Contexts : TRUE,
     surprise_magnitude |->
        CalculateSurpriseMagnitude(mlast'.expected, mlast'.actual)]

\* The confidence of `pattern` after the threshold step of this call: lowered by
\* half the magnitude, not below 0, when the magnitude is strictly greater than
\* 0.3, and as it was otherwise.
AfterThreshold(pattern) ==
    LET m == SurpriseEvent.surprise_magnitude IN
    IF 10 * m > 3 * Scale
    THEN (IF 2 * pattern.confidence > m THEN pattern.confidence - m \div 2 ELSE 0)
    ELSE pattern.confidence

\* C19: record_surprise on a stored pattern appends the surprise event, which
\* ends the pattern's event list when the call returns; the threshold step
\* makes the confidence max(0, c - 0.5 * magnitude) when the magnitude is
\* strictly greater than 0.3 and leaves it alone otherwise; no other pattern is
\* touched; and on an unknown pattern_id the call returns with the memory as
\* it was.
C19_RecordSurprise ==
    [][ RecordSurpriseStep =>
            LET p == mlast'.pattern_id
                old == patterns[p]
                new == patterns'[p]
            IN  IF old.present
                THEN /\ new.surprise_events # <<>>
                     /\ new.surprise_events[Len(new.surprise_events)] = SurpriseEvent
                     /\ Len(old.surprise_events) < MaxSurpriseEvents =>
                           /\ new.surprise_events =
                                 Append(old.surprise_events, SurpriseEvent)
                           /\ new.confidence = AfterThreshold(old)
                     /\ new.confidence <= AfterThreshold(old)
                           \/ new.confidence = Scale \div 10
                     /\ \A q \in PatternIds \ {p} : patterns'[q] = patterns[q]
                ELSE patterns' = patterns
      ]_vars

\* C19 witness: record_surprise with every key mismatched (magnitude 1.0) has
\* taken a pattern stored at 1.0 down to 0.5, and an earlier surprise of
\* magnitude exactly 0.3 had left it at 1.0.
C19_Witness ==
    \E p \in PatternIds :
        /\ mlast.op = "record_surprise"
        /\ mlast.pattern_id = p
        /\ CalculateSurpriseMagnitude(mlast.expected, mlast.actual) = Scale
        /\ patterns[p].present
        /\ Len(patterns[p].surprise_events) = 2
        /\ patterns[p].surprise_events[1].surprise_magnitude = SurpriseThreshold
        /\ patterns[p].confidence = Scale \div 2

\* C20: a record_surprise call that leaves a pattern with more than 5 surprise
\* events runs relearning before it returns: the confidence becomes
\* max(0.1, c / 2), c being the confidence after the threshold step of that
\* call, and the two most recent events are all that is kept; a call that
\* leaves 5 events or fewer halves nothing and drops no event.
C20_Relearning ==
    [][ (RecordSurpriseStep /\ patterns[mlast'.pattern_id].present) =>
            LET old == patterns[mlast'.pattern_id]
                new == patterns'[mlast'.pattern_id]
                events == Append(old.surprise_events, SurpriseEvent)
                c == AfterThreshold(old)
            IN  IF Len(events) > MaxSurpriseEvents
                THEN /\ new.confidence =
                           (IF 10 * (c \div 2) > Scale THEN c \div 2 ELSE Scale \div 10)
                     /\ new.surprise_events =
                           <<events[Len(events) - 1], events[Len(events)]>>
                ELSE /\ new.confidence = c
                     /\ new.surprise_events = events
      ]_vars

\* C20 witness: relearning halved a confidence of 1.0 and kept the last two of
\* six events, which differ from each other and from the ones dropped.
C20_Witness ==
    \E p \in PatternIds :
        /\ patterns[p].present
        /\ mlast.op = "record_surprise"
        /\ mlast.pattern_id = p
        /\ surprise_calls = MaxSurpriseEvents + 1
        /\ Len(patterns[p].surprise_events) = KeptSurpriseEvents
        /\ patterns[p].surprise_events[1].surprise_magnitude = SurpriseThreshold
        /\ patterns[p].surprise_events[2].surprise_magnitude = 0
        /\ patterns[p].confidence = Scale \div 2

(***************************************************************************)
(* Properties of the MemoryManager's retrieval                             *)
(***************************************************************************)

\* A key of the union on which the two dicts disagree: it is missing from one
\* of them, or they hold different values under it.
Mismatched(expected, actual, k) ==
    \/ (k \in DOMAIN expected) # (k \in DOMAIN actual)
    \/ /\ k \in DOMAIN expected
       /\ k \in DOMAIN actual
       /\ expected[k] # actual[k]

\* C21: the surprise magnitude of (expected, actual) is the number of keys of
\* the union of the two key sets on which the dicts are mismatched, divided by
\* the size of the union, 0 when both are empty; it lies in [0, 1], and
\* {a: 1} against {a: 2} gives 1.0.
C21_SurpriseMagnitude ==
    magnitude.applied =>
        LET expected == magnitude.expected
            actual == magnitude.actual
            union == DOMAIN expected \cup DOMAIN actual
            mismatches == Cardinality({k \in union :
                                          Mismatched(expected, actual, k)})
        IN  /\ magnitude.value >= 0
            /\ magnitude.value <= Scale
            /\ union = {} => magnitude.value = 0
            /\ union # {} =>
                   magnitude.value = (mismatches * Scale) \div Cardinality(union)
            /\ (expected = [a |-> "1"] /\ actual = [a |-> "2"]) =>
                   magnitude.value = Scale

\* This step is the return of find_matching_patterns(context, pattern_type).
FindStep(context, pattern_type) ==
    /\ mlast'.op = "find_matching_patterns"
    /\ mlast'.context = context
    /\ mlast'.pattern_type = pattern_type
    /\ mlast' # mlast \/ patterns' # patterns

\* The relevance of a stored pattern to a context, in RelevanceUnit-ths:
\* min(1.0, |trigger keys in context| / |trigger keys| + 0.3 * confidence
\*          + min(usage_count / 10, 0.2)), and 0 without trigger keys.
StatedRelevance(pattern, context) ==
    LET trigger == DOMAIN pattern.trigger_conditions
    IN  IF trigger = {} THEN 0
        ELSE Min(RelevanceUnit,
                 (Cardinality(trigger \cap DOMAIN context) * RelevanceUnit)
                     \div Cardinality(trigger)
                 + 3 * pattern.confidence
                 + Min(pattern.usage_count * Scale, 2 * Scale))

\* The stored patterns a search has to return: those of the requested type,
\* when one is given, whose relevance is above 0.3.
StatedMatches(context, pattern_type) ==
    {id \in PatternIds :
        /\ patterns[id].present
        /\ pattern_type # None => patterns[id].pattern_type = pattern_type
        /\ 10 * StatedRelevance(patterns[id], context) > 3 * RelevanceUnit}

\* The place of a key in the dict.
Position(order, id) == CHOOSE i \in 1..Len(order) : order[i] = id

\* C22: find_matching_patterns(context, pattern_type) returns exactly the
\* stored patterns, of the requested type when one is given, whose relevance
\* computed from the usage_count before the call is strictly above 0.3, each
\* once, in descending order of relevance, patterns of equal relevance in the
\* order the dict holds them.
C22_FindMatchingPatterns ==
    [][ \A context \in RecallContexts, pattern_type \in RecallTypeArgs :
          FindStep(context, pattern_type) =>
            LET returned == mlast'.matches
                relevance(i) == StatedRelevance(patterns[returned[i]], context)
            IN  /\ {returned[i] : i \in 1..Len(returned)}
                     = StatedMatches(context, pattern_type)
                /\ Len(returned) = Cardinality(StatedMatches(context, pattern_type))
                /\ \A i, j \in 1..Len(returned) :
                       i < j =>
                         /\ relevance(i) >= relevance(j)
                         /\ relevance(i) = relevance(j) =>
                                Position(pattern_order, returned[i])
                                  < Position(pattern_order, returned[j]) ]_vars

\* A search by type returned both stored patterns, the later one of the dict
\* first.
C22_Witness ==
    /\ mlast.op = "find_matching_patterns"
    /\ mlast.pattern_type = "task_execution"
    /\ mlast.matches = <<"p2", "p1">>
    /\ pattern_order = <<"p1", "p2">>

\* C23: find_matching_patterns changes neither trigger_conditions,
\* expected_outcomes, confidence and surprise_events of any pattern nor the set
\* of stored patterns; it adds exactly 1 to usage_count and sets last_accessed
\* to the time of the call for exactly the patterns it returns, and leaves
\* every other pattern as it was.
C23_FindSideEffects ==
    [][ \A context \in RecallContexts, pattern_type \in RecallTypeArgs :
          FindStep(context, pattern_type) =>
            /\ pattern_order' = pattern_order
            /\ \A id \in PatternIds :
                  IF id \in StatedMatches(context, pattern_type)
                  THEN patterns'[id] =
                         [patterns[id] EXCEPT
                            !.usage_count = patterns[id].usage_count + 1,
                            !.last_accessed = utcnow]
                  ELSE patterns'[id] = patterns[id] ]_vars

\* A search returned one of two stored patterns: it is used once and stamped
\* with the day of the search, the other is unused and has its older stamp.
C23_Witness ==
    /\ mlast.op = "find_matching_patterns"
    /\ mlast.matches = <<"p1">>
    /\ patterns["p1"].usage_count = 1
    /\ patterns["p1"].last_accessed = utcnow
    /\ patterns["p2"].present
    /\ patterns["p2"].usage_count = 0
    /\ patterns["p2"].last_accessed < utcnow

\* This step is the return of cleanup_old_patterns.
CleanupStep ==
    /\ mlast'.op = "cleanup_old_patterns"
    /\ mlast' # mlast \/ patterns' # patterns

\* Older than 24 hours, confidence below 0.3 and used less than 3 times.
StatedDecay(pattern, now) ==
    /\ now - pattern.last_accessed > 24
    /\ 10 * pattern.confidence < 3 * Scale
    /\ pattern.usage_count < 3

\* C24: cleanup_old_patterns removes exactly the stored patterns whose
\* last_accessed is more than 24 hours old and whose confidence is below 0.3
\* and whose usage_count is below 3, leaves every other pattern unchanged, and
\* returns the number of patterns it removed.
C24_CleanupOldPatterns ==
    [][ CleanupStep =>
          LET removed == {id \in PatternIds :
                            /\ patterns[id].present
                            /\ StatedDecay(patterns[id], utcnow)}
          IN  /\ \A id \in PatternIds :
                    /\ id \in removed => ~patterns'[id].present
                    /\ id \notin removed => patterns'[id] = patterns[id]
              /\ {pattern_order'[i] : i \in 1..Len(pattern_order')}
                   = {id \in PatternIds : patterns[id].present} \ removed
              /\ mlast'.removed = Cardinality(removed) ]_vars

\* A cleanup removed one pattern and kept another of the same age that is
\* confident.
C24_Witness ==
    /\ mlast.op = "cleanup_old_patterns"
    /\ mlast.removed = 1
    /\ \E id \in PatternIds :
          /\ patterns[id].present
          /\ utcnow - patterns[id].last_accessed > PatternDecayHours
          /\ patterns[id].confidence >= CleanupConfidence
          /\ patterns[id].usage_count < CleanupUsage

\* C25: the confidence of every stored pattern is within [0, 1] in every
\* reachable state, whatever confidence store_pattern was called with.
C25_StoredConfidenceInUnitRange ==
    \A id \in PatternIds :
        patterns[id].present =>
            /\ patterns[id].confidence >= 0
            /\ patterns[id].confidence <= Scale

(***************************************************************************)
(* Properties of the CausalityAnalyzer                                     *)
(***************************************************************************)

\* This step is the return of the call `op` with the argument `key`.
AnalysisStep(op, key) ==
    /\ klast'.op = op
    /\ klast'.key = key
    /\ klast' # klast

\* C26: once trace_causality(e) has returned, the cache entry of e is never
\* replaced or dropped, and every later trace_causality(e) returns that
\* CausalPath: the same object, path, confidence and total_impact_score,
\* whatever calls came in between; the first call returns what it caches.
\* Likewise analyze_impact for every source_change.
C26_CachedAnalysis ==
    [][ /\ \A e \in TargetEvents :
            /\ causal_cache[e] # NoPath => causal_cache'[e] = causal_cache[e]
            /\ AnalysisStep("trace_causality", e) =>
                   /\ klast'.causal_path = causal_cache'[e]
                   /\ klast'.causal_path # NoPath
        /\ \A c \in SourceChanges :
            /\ impact_cache[c] # NoImpact => impact_cache'[c] = impact_cache[c]
            /\ AnalysisStep("analyze_impact", c) =>
                   /\ klast'.impact_analysis = impact_cache'[c]
                   /\ klast'.impact_analysis # NoImpact ]_vars

\* A trace returned the first object the analyzer built after three more
\* analyses had been built, and while a counterfactual analysis is under way.
C26_Witness ==
    /\ klast.op = "trace_causality"
    /\ klast.causal_path.object = 1
    /\ klast.causal_path.total_impact_score = (18 * Scale) \div 10
    /\ allocated = 4
    /\ \E t \in Tasks : kpc[t].pending

(***************************************************************************)
(* Properties of the Coordinator under concurrent acts                     *)
(***************************************************************************)

\* The acts that returned success on intentions of one pattern key.
RECURSIVE SuccessesUpTo(_, _)
SuccessesUpTo(pattern_key, n) ==
    IF n = 0 THEN 0
    ELSE SuccessesUpTo(pattern_key, n - 1)
         + (IF PatternKey(issued[n].agent_id, issued[n].action) = pattern_key
            THEN successes[n] ELSE 0)

\* C27: no update of the pattern learner is lost, however the act calls
\* interleave: when n acts on intentions of one agent_id and action have
\* returned success, the cached entry of their key has confidence
\* min(1.0, 0.7 + 0.1 * n) and sample_count 10 + n, 0.7 and 10 being the values
\* of the fresh entry.
C27_NoLostUpdate ==
    \A pattern_key \in PatternKeys :
        pattern_cache[pattern_key].present =>
            LET n == SuccessesUpTo(pattern_key, Len(issued))
            IN  /\ pattern_cache[pattern_key].confidence_score
                     = Min(Scale, (7 * Scale) \div 10 + n * (Scale \div 10))
                /\ pattern_cache[pattern_key].sample_count = 10 + n

\* Two intentions of one agent and action have each been acted on, the last
\* act returned success on the first of them, and the entry counts both.
C27_Witness ==
    /\ Len(issued) = 2
    /\ issued[1].agent_id = issued[2].agent_id
    /\ issued[1].action = issued[2].action
    /\ successes = <<1, 1>>
    /\ \A t \in Tasks : cpc[t] = "idle"
    /\ clast = ActionResult(1, "success", None)
    /\ LET entry == pattern_cache[PatternKey(issued[1].agent_id, issued[1].action)]
       IN  /\ entry.confidence_score = (9 * Scale) \div 10
           /\ entry.sample_count = 12

(***************************************************************************)
(* Properties of snapshots taken among concurrent calls                    *)
(***************************************************************************)

\* C28: a snapshot is consistent as of one instant: its resource_locks is the
\* lock table restricted to the requested resources and its active_agents is
\* the list of registered agents, both as they are when get_world_state
\* returns, and nothing of the lock table, the agent list or another task's
\* pending call changes in the step that takes the snapshot.
C28_SnapshotPointInTime ==
    [][ SnapshotStep =>
          LET requested == DOMAIN NewSnapshot.resources
              locked == {r \in Resources : resource_locks[r] # None}
          IN  /\ DOMAIN NewSnapshot.resource_locks = locked \cap requested
              /\ \A r \in locked \cap requested :
                    NewSnapshot.resource_locks[r] = resource_locks[r]
              /\ NewSnapshot.active_agents.items = active_agents
              /\ resource_locks' = resource_locks
              /\ active_agents' = active_agents
              /\ wpc' = wpc
              /\ wcall' = wcall ]_vars

\* A snapshot was taken while the other task waits inside acquire for the
\* resource the snapshot shows locked; a resource that was not requested is
\* locked too and is not in the snapshot; the registered agent is.
C28_Witness ==
    /\ wlast.op = "get_world_state"
    /\ Len(snapshots) >= 1
    /\ \E t \in Tasks : wpc[t] = "acquire" /\ wcall[t].resource = "db"
    /\ resource_locks["cache"] # None
    /\ DOMAIN LastSnapshot.resource_locks = {"db"}
    /\ LastSnapshot.resource_locks["db"] = resource_locks["db"]
    /\ LastSnapshot.active_agents.items = <<"agent_1">>

(***************************************************************************)
(* Properties of the demo coordination protocol                            *)
(***************************************************************************)

\* Every process_task call has returned.
AllDone == \A t \in Tasks : demo[t].pc = "done"

\* The resources of a list.
Elements(list) == {list[i] : i \in 1..Len(list)}

\* C29: every process_task call terminates, whatever the interleaving, the
\* agents and the resource lists; the locks a task gives up when it finishes
\* are exactly the locks it acquired; and once all tasks have finished the
\* lock table is empty.
C29_DemoReleasesAll ==
    /\ <>AllDone
    /\ [](AllDone => \A r \in Resources : resource_locks[r] = None)
    /\ [][ \A t \in Tasks :
              (demo[t].pc = "acting" /\ demo'[t].pc = "done") =>
                 /\ \A r \in Elements(demo[t].locks_acquired) :
                       resource_locks[r] = demo[t].agent_id
                 /\ {r \in Resources : resource_locks[r] # resource_locks'[r]}
                      = Elements(demo[t].locks_acquired) ]_vars

\* Two tasks of one agent asked for the two resources in opposite orders, each
\* got its first and timed out on its second, both have finished and no lock
\* is left.
C29_Witness ==
    /\ AllDone
    /\ demo["t1"].agent_id = demo["t2"].agent_id
    /\ demo["t1"].resources = <<"db", "cache">>
    /\ demo["t2"].resources = <<"cache", "db">>
    /\ demo["t1"].locks_acquired = <<"db">>
    /\ demo["t2"].locks_acquired = <<"cache">>
    /\ \A r \in Resources : resource_locks[r] = None

(***************************************************************************)
(* Properties of a waiting acquire_resource_lock call                      *)
(***************************************************************************)

\* Agent a has just released the resource or has just been unregistered, and
\* the resource is free.
FreedBy(a, resource) ==
    /\ resource_locks[resource] = None
    /\ \/ wlast = Returned("release", resource, a, TRUE)
       \/ wlast = Returned("unregister", None, a, None)

\* Task t waits inside acquire_resource_lock(resource, agent_id, timeout) with
\* more than one poll interval of its timeout left.
Waits(t, resource, agent_id, timeout) ==
    /\ wpc[t] = "acquire"
    /\ wcall[t].resource = resource
    /\ wcall[t].agent_id = agent_id
    /\ wcall[t].timeout = timeout
    /\ timeout - wcall[t].elapsed > 1

\* The call of task t has just returned True and its agent holds the resource.
Granted(t, resource, agent_id, timeout) ==
    /\ wpc[t] = "idle"
    /\ wlast = AcquireReturned(resource, agent_id, timeout, TRUE)
    /\ resource_locks[resource] = agent_id

\* The event loop has resumed task t so late that its timeout ran out while
\* the resource was free.
ResumedLate(t, resource) ==
    /\ wpc[t] = "acquire"
    /\ ~wcall[t].asleep
    /\ wcall[t].elapsed >= wcall[t].timeout
    /\ resource_locks[resource] = None

\* Another call has taken the resource while task t still waits for it.
TakenMeanwhile(t, resource) ==
    /\ wpc[t] = "acquire"
    /\ resource_locks[resource] # None

\* C30 as stated: when the holder A releases R or is unregistered while B waits
\* in acquire_resource_lock(R, B, T) with more than one poll interval left, and
\* no agent other than A and B asks for R, B's call returns True and B holds R
\* (a task resumed in time is taken for granted).
C30_WaiterGetsFreedLock ==
    \A t \in Tasks, r \in Resources, T \in Timeouts, a \in Agents :
      \A b \in Agents \ {a} :
        (FreedBy(a, r) /\ Waits(t, r, b, T)) ~>
            (Granted(t, r, b, T) \/ ResumedLate(t, r))

\* C30, amended: in that situation B's call returns True and B holds R unless
\* another acquire call, of any agent, A included, takes R before B's next
\* poll.
C30_WaiterGetsFreedLockUnlessTaken ==
    \A t \in Tasks, r \in Resources, T \in Timeouts, a \in Agents :
      \A b \in Agents \ {a} :
        (FreedBy(a, r) /\ Waits(t, r, b, T)) ~>
            (Granted(t, r, b, T) \/ ResumedLate(t, r) \/ TakenMeanwhile(t, r))

\* agent_1 has just released the resource agent_2 waits for, with more than
\* one poll interval left.
C30_Witness ==
    /\ FreedBy("agent_1", "db")
    /\ wlast.op = "release"
    /\ \E t \in Tasks : Waits(t, "db", "agent_2", MaxTimeout)

(***************************************************************************)
(* Locks and registration                                                  *)
(***************************************************************************)

\* This step is the return of an acquire_resource_lock call whose loop
\* condition held at its last evaluation.
AcquireRanInTime(timeout) ==
    \/ wpc' = wpc /\ LoopRuns(0, timeout)
    \/ \E t \in Tasks : /\ wpc[t] = "acquire" /\ wpc'[t] = "idle"
                         /\ LoopRuns(wcall[t].elapsed, wcall[t].timeout)

\* C31: lock ownership is independent of registration.  An
\* acquire_resource_lock of an agent that is not in active_agents on a free
\* resource returns True and makes the agent the holder, whether the call was
\* issued or was pending when the agent was unregistered; and a lock leaves its
\* holder only in a release_resource_lock of that holder or in an
\* unregister_agent of it.
C31_LocksIgnoreRegistration ==
    [][ /\ \A r \in Resources, a \in Agents, T \in Timeouts, v \in BOOLEAN :
              (/\ AcquireReturnStep(r, a, T, v)
               /\ ~ListHas(active_agents, a)
               /\ resource_locks[r] = None
               /\ AcquireRanInTime(T)) =>
                    v = TRUE /\ resource_locks'[r] = a
        /\ \A r \in Resources, a \in Agents :
              (resource_locks[r] = a /\ resource_locks'[r] # a) =>
                  /\ resource_locks'[r] = None
                  /\ \/ ReturnStep(Returned("release", r, a, TRUE))
                     \/ ReturnStep(Returned("unregister", None, a, None))
      ]_vars

\* agent_1 has been registered and unregistered, agent_2 is registered, and an
\* acquire of agent_1 has just returned True: an unregistered agent holds "db".
C31_Witness ==
    /\ wlast = AcquireReturned("db", "agent_1", MaxTimeout, TRUE)
    /\ resource_locks["db"] = "agent_1"
    /\ active_agents = <<"agent_2">>

(***************************************************************************)
(* Properties of the confidence under surprise                             *)
(***************************************************************************)

\* C32 as stated: no record_surprise call, relearning or not, leaves a stored
\* pattern with a confidence greater than the one it had before the call.
C32_SurpriseOnlyDecays ==
    [][ RecordSurpriseStep =>
            \A p \in PatternIds :
                patterns[p].present =>
                    patterns'[p].confidence <= patterns[p].confidence
      ]_vars

\* C32, amended: a record_surprise call leaves a pattern whose confidence was
\* at least 0.1 with a confidence no greater than before, and raises a
\* confidence below 0.1 to 0.1 at most (the threshold step floors at 0.0,
\* relearning at 0.1).
C32_SurpriseDecaysAboveFloor ==
    [][ RecordSurpriseStep =>
            \A p \in PatternIds :
                patterns[p].present =>
                    /\ patterns'[p].confidence
                           <= Max(patterns[p].confidence, Scale \div 10)
                    /\ patterns[p].confidence >= Scale \div 10 =>
                           patterns'[p].confidence <= patterns[p].confidence
      ]_vars

\* Relearning has just raised a pattern stored at 0.0 to 0.1.
C32_Witness ==
    /\ mlast.op = "record_surprise"
    /\ mlast.pattern_id = "p1"
    /\ surprise_calls = MaxSurpriseEvents + 1
    /\ Len(patterns["p1"].surprise_events) = KeptSurpriseEvents
    /\ \A i \in 1..KeptSurpriseEvents :
            patterns["p1"].surprise_events[i].surprise_magnitude = 0
    /\ patterns["p1"].confidence = Scale \div 10

(***************************************************************************)
(* Properties of the matches of find_matching_patterns                     *)
(***************************************************************************)

\* The trigger keys of a pattern that are keys of the context.
SharedKeys(pattern, context) ==
    DOMAIN pattern.trigger_conditions \cap DOMAIN context

\* 0.3 * confidence + min(usage_count / 10, 0.2) is above 0.3: the boosts alone
\* carry the pattern over the threshold.
BoostsSuffice(pattern) ==
    10 * (3 * pattern.confidence + Min(pattern.usage_count * Scale, 2 * Scale))
        > 3 * RelevanceUnit

\* C33 as stated: every pattern find_matching_patterns(context) returns, of a
\* stored confidence in [0, 1] and of any usage_count, has a trigger key that
\* is a key of the context.
C33_MatchesShareAKey ==
    [][ \A context \in RecallContexts, pattern_type \in RecallTypeArgs :
          FindStep(context, pattern_type) =>
            \A i \in 1..Len(mlast'.matches) :
                LET pattern == patterns[mlast'.matches[i]]
                IN  (pattern.confidence >= 0 /\ pattern.confidence <= Scale) =>
                        SharedKeys(pattern, context) # {} ]_vars

\* C33, amended: every pattern find_matching_patterns(context) returns has a
\* trigger key, and either one of its trigger keys is a key of the context or
\* 0.3 * confidence + min(usage_count / 10, 0.2) exceeds 0.3 by itself; a
\* pattern of confidence at most 1 that was never used is returned only with a
\* shared key.
C33_MatchesShareAKeyOrAreBoosted ==
    [][ \A context \in RecallContexts, pattern_type \in RecallTypeArgs :
          FindStep(context, pattern_type) =>
            \A i \in 1..Len(mlast'.matches) :
                LET pattern == patterns[mlast'.matches[i]]
                IN  /\ DOMAIN pattern.trigger_conditions # {}
                    /\ SharedKeys(pattern, context) # {} \/ BoostsSuffice(pattern)
                    /\ (pattern.usage_count = 0 /\ pattern.confidence <= Scale) =>
                            SharedKeys(pattern, context) # {} ]_vars

\* A search with an empty context has returned a pattern of confidence 1.0
\* that had been used before.
C33_Witness ==
    /\ mlast.op = "find_matching_patterns"
    /\ mlast.context = EmptyDict
    /\ mlast.matches = <<"p1">>
    /\ patterns["p1"].confidence = Scale
    /\ patterns["p1"].usage_count = 2

\* This step is a store_pattern, record_surprise or cleanup_old_patterns call.
Intervenes ==
    /\ mlast'.op \in {"store_pattern", "record_surprise", "cleanup_old_patterns"}
    /\ mlast' # mlast \/ patterns' # patterns \/ pattern_order' # pattern_order

\* find_matching_patterns(context, pattern_type) returns this pattern.
InResult(pattern, context, pattern_type) ==
    /\ pattern.present
    /\ pattern_type # None => pattern.pattern_type = pattern_type
    /\ 10 * StatedRelevance(pattern, context) > 3 * RelevanceUnit

\* C34: matching is self-reinforcing.  A step that is no store_pattern,
\* record_surprise or cleanup_old_patterns call - a get_pattern, a search with
\* any arguments, the passing of time - takes no pattern out of the result of
\* any search; and find_matching_patterns(ctx, t) returns the patterns in the
\* result for (ctx, t), which are in that result after the call too.  So a
\* pattern once returned for (ctx, t) is returned by every later search for
\* (ctx, t) until such a call intervenes.
C34_MatchingReinforces ==
    [][ ~Intervenes =>
          /\ \A id \in PatternIds :
                patterns'[id] # patterns[id] =>
                  \A context \in RecallContexts, pattern_type \in RecallTypeArgs :
                    InResult(patterns[id], context, pattern_type) =>
                        InResult(patterns'[id], context, pattern_type)
          /\ mlast'.op = "find_matching_patterns" =>
                \A id \in PatternIds :
                    InResult(patterns[id], mlast'.context, mlast'.pattern_type)
                        <=> \E i \in 1..Len(mlast'.matches) : mlast'.matches[i] = id
      ]_vars

\* The same search has returned p1 twice in a row: p1 owes its two uses to the
\* two searches.
C34_Witness ==
    /\ mlast.op = "find_matching_patterns"
    /\ mlast.context = EmptyDict
    /\ mlast.pattern_type = "task_execution"
    /\ mlast.matches = <<"p1">>
    /\ patterns["p1"].usage_count = MaxUsage
    /\ ~patterns["p2"].present

(***************************************************************************)
(* Properties of the surprise events of a pattern                          *)
(***************************************************************************)

\* The events a pattern holds once n surprises have been recorded on it: n up
\* to five, and from the 6th on 2, 3, 4, 5, 2, 3, ...
RetainedAfter(n) == IF n <= 5 THEN n ELSE 2 + ((n - 6) % 4)

\* `list` is `whole` without some of its first elements.
IsSuffix(list, whole) ==
    /\ Len(list) <= Len(whole)
    /\ list = SubSeq(whole, Len(whole) - Len(list) + 1, Len(whole))

\* C35: between calls a stored pattern holds at most 5 surprise events: with n
\* surprises recorded on it it holds n of them up to the 5th, relearning cuts
\* the list to two on the 6th and then on every 4th after it (the 10th, the
\* 14th, ...), and the events held are the most recent ones recorded, in the
\* order of recording.
C35_SurpriseEventsBounded ==
    /\ [](\A p \in PatternIds :
            /\ Len(patterns[p].surprise_events) <= 5
            /\ patterns["p1"].present =>
                  Len(patterns["p1"].surprise_events) = RetainedAfter(surprise_calls))
    /\ [][ (RecordSurpriseStep /\ patterns[mlast'.pattern_id].present) =>
              LET old == patterns[mlast'.pattern_id].surprise_events
                  new == patterns'[mlast'.pattern_id].surprise_events
              IN  /\ IsSuffix(new, Append(old, SurpriseEvent))
                  /\ Len(new) <= Len(old) <=>
                        (surprise_calls' >= 6 /\ ((surprise_calls' - 6) % 4) = 0)
          ]_vars

\* The 10th surprise on a pattern has made relearning fire a second time: the
\* pattern holds the 9th and the 10th event.
C35_Witness ==
    /\ surprise_calls = 10
    /\ mlast.op = "record_surprise"
    /\ patterns["p1"].present
    /\ Len(patterns["p1"].surprise_events) = 2
    /\ patterns["p1"].surprise_events[1].surprise_magnitude = Scale
    /\ patterns["p1"].surprise_events[2].surprise_magnitude = SurpriseThreshold

(***************************************************************************)
(* Properties of the confidence intend reports                             *)
(***************************************************************************)

\* The acts that returned success on the first n intentions of one agent_id
\* and action.
RECURSIVE PairSuccesses(_, _, _)
PairSuccesses(agent_id, action, n) ==
    IF n = 0 THEN 0
    ELSE PairSuccesses(agent_id, action, n - 1)
         + (IF issued[n].agent_id = agent_id /\ issued[n].action = action
            THEN successes[n] ELSE 0)

\* This step is an intend call; NewIntention is the Intention it returns.
IntendStep == Len(issued') > Len(issued)
NewIntention == issued'[Len(issued')]

\* C36: the pattern entries of different (agent_id, action) pairs are
\* independent: the confidence intend returns for a pair is that of the pair's
\* own history, min(1.0, 0.7 + 0.1 * n) after n successful acts of that pair,
\* whatever acts of other pairs there were.
C36_PairsIndependent ==
    [][ IntendStep =>
            NewIntention.confidence =
                Min(Scale, (7 * Scale) \div 10
                           + PairSuccesses(NewIntention.agent_id,
                                           NewIntention.action, Len(issued))
                             * (Scale \div 10))
      ]_vars

\* The acts that returned success on those of the first n intentions that name
\* this agent_id, this action and this resource set.
RECURSIVE PairSuccessesOn(_, _, _, _)
PairSuccessesOn(agent_id, action, affected_resources, n) ==
    IF n = 0 THEN 0
    ELSE PairSuccessesOn(agent_id, action, affected_resources, n - 1)
         + (IF /\ issued[n].agent_id = agent_id
               /\ issued[n].action = action
               /\ issued[n].affected_resources = affected_resources
            THEN successes[n] ELSE 0)

\* The successful acts of one agent_id and action, over every resource set.
RECURSIVE SumOverResourceLists(_, _, _)
SumOverResourceLists(agent_id, action, lists) ==
    IF lists = {} THEN 0
    ELSE LET affected_resources == CHOOSE l \in lists : TRUE
         IN  PairSuccessesOn(agent_id, action, affected_resources, Len(issued))
             + SumOverResourceLists(agent_id, action, lists \ {affected_resources})

\* C37: the confidence intend returns depends on agent_id, action and the
\* number of earlier successful acts of that pair only, the resource set of an
\* intention playing no part: the successes on every resource set count alike,
\* and the confidence is min(1.0, 0.7 + 0.1 * n) for the n successes of the pair.
C37_ConfidencePerPair ==
    [][ IntendStep =>
            LET n == SumOverResourceLists(NewIntention.agent_id,
                                          NewIntention.action, ResourceLists)
            IN  NewIntention.confidence
                    = Min(Scale, DefaultConfidence + n * (Scale \div 10))
      ]_vars

\* What holds in place of C37: the same with the successes counted per pattern
\* key, the string under which the entry is stored, and the entry is the one
\* the intentions of every resource set read.
ConfidencePerPatternKey ==
    [][ IntendStep =>
            LET pattern_key == PatternKey(NewIntention.agent_id, NewIntention.action)
                n == SuccessesUpTo(pattern_key, Len(issued))
            IN  /\ NewIntention.confidence
                     = Min(Scale, DefaultConfidence + n * (Scale \div 10))
                /\ pattern_cache'[pattern_key].confidence_score
                     = NewIntention.confidence
      ]_vars

\* An intention on one resource set was acted on with success and a later
\* intention of the same pair on another resource set reports 0.8.
SharedEntryReached ==
    /\ Len(issued) = 2
    /\ issued[1].agent_id = issued[2].agent_id
    /\ issued[1].action = issued[2].action
    /\ issued[1].affected_resources # issued[2].affected_resources
    /\ successes[1] = 1
    /\ issued[2].confidence = (8 * Scale) \div 10

(***************************************************************************)
(* Properties of the WorldStateManager clock                               *)
(***************************************************************************)

\* C38: the clock advances by exactly one tick in every get_world_state and
\* set_resource_state call without hlc_time, a refused set_resource_state
\* included, and in no other call: a call with an explicit hlc_time, acquire,
\* its polls, release, register and unregister leave it alone; get_world_state
\* changes the clock and the snapshot cache only, and the cache by one entry.
C38_ClockTicksOncePerCall ==
    [][ /\ \A t \in Tasks, r \in Resources, s \in States, a \in Agents :
            /\ SetResourceState(t, r, s, a, FALSE) =>
                    /\ current_hlc_time' = current_hlc_time + 1
                    /\ wlast'.value = SetStateReturns(resource_locks, r, a)
            /\ SetResourceState(t, r, s, a, TRUE) =>
                    current_hlc_time' = current_hlc_time
        /\ SnapshotStep =>
            /\ IF NewSnapshot.hlc_time \in HlcTimeArgs \ {NoHlcTime}
               THEN current_hlc_time' = current_hlc_time
               ELSE /\ current_hlc_time' = current_hlc_time + 1
                    /\ NewSnapshot.hlc_time = current_hlc_time'
            /\ SubSeq(snapshots', 1, Len(snapshots)) = snapshots
            /\ UNCHANGED <<resource_locks, active_agents, wpc, wcall>>
        /\ current_hlc_time' # current_hlc_time =>
            /\ current_hlc_time' = current_hlc_time + 1
            /\ \/ SnapshotStep
               \/ /\ wlast'.op = "set_state"
                  /\ UNCHANGED <<resource_locks, active_agents, wpc, wcall,
                                 snapshots>>
      ]_vars

\* set_resource_state without hlc_time was refused, the resource being held by
\* the other agent, and the clock stands one tick after its start.
C38_Witness ==
    /\ wlast = SetStateReturned("db", [status |-> "processing"], "agent_2", FALSE)
    /\ resource_locks["db"] = "agent_1"
    /\ current_hlc_time = 1
    /\ snapshots = <<>>

(***************************************************************************)
(* Properties of acquire_resource_lock on a free resource                  *)
(***************************************************************************)

\* C39: acquire_resource_lock returns True whenever the resource is unlocked
\* for the whole call, for every timeout_seconds >= 0, 0 included: a call that
\* finds the resource free returns True at once and makes the caller its
\* holder, and a call that returns False without ever having been suspended
\* found the resource held.
C39_FreeResourceIsGranted ==
    [][ \A t \in Tasks, r \in Resources, a \in Agents, T \in Timeouts :
            AcquireCall(t, r, a, T) =>
                /\ ResourceAvailable(resource_locks, r) =>
                        /\ wlast' = AcquireReturned(r, a, T, TRUE)
                        /\ resource_locks'[r] = a
                /\ (wpc'[t] = "idle" /\ wlast' = AcquireReturned(r, a, T, FALSE)) =>
                        ~ResourceAvailable(resource_locks, r)
      ]_vars

\* What holds in place of C39: the same for every call whose loop is entered,
\* which a timeout_seconds of 0 rules out.
FreeResourceIsGrantedInTime ==
    [][ \A t \in Tasks, r \in Resources, a \in Agents, T \in Timeouts :
            (AcquireCall(t, r, a, T) /\ LoopRuns(0, T)) =>
                /\ ResourceAvailable(resource_locks, r) =>
                        /\ wlast' = AcquireReturned(r, a, T, TRUE)
                        /\ resource_locks'[r] = a
                /\ ~(wpc'[t] = "idle" /\ wlast' = AcquireReturned(r, a, T, FALSE))
      ]_vars

(***************************************************************************)
(* Properties of act over the backend when the request raises              *)
(***************************************************************************)

\* This step ends the act call of task t with the exception of its request.
ActRequestRaised(t) ==
    /\ rpc[t] = "act_request"
    /\ rpc'[t] = "idle"
    /\ rlast'.op = "act"
    /\ rlast'.outcome = "raised"

\* This step ends the act call of task t on intention i of client c with the
\* ActionResult built from the backend's response.
ActResponded(t, c, i) ==
    /\ rpc[t] = "act_request"
    /\ rcall[t] = [client |-> c, intention_id |-> i]
    /\ rpc'[t] = "idle"
    /\ rlast'.client = c /\ rlast'.op = "act" /\ rlast'.intention_id = i
    /\ rlast'.outcome \in {"success", "failure"}

\* C40: act of RealCoordinator and of RealAlineaClient removes the intention
\* from the active table only when its request has returned a response; an act
\* whose request raises leaves every active table as it was, and an act on an
\* intention that is in the table, after such a failure as at any other time,
\* passes the 'not found' test and posts its request.
C40_RaisingActKeepsIntention ==
    [][ /\ \A c \in Clients, i \in BackendIds :
            (i \in real_active[c] /\ i \notin real_active'[c]) =>
                \E t \in Tasks : ActResponded(t, c, i)
        /\ \A t \in Tasks : ActRequestRaised(t) => real_active' = real_active
        /\ \A t \in Tasks, c \in Clients, i \in BackendIds :
            (RealActCall(t, c, i) /\ i \in real_active[c]) =>
                /\ rpc'[t] = "act_request"
                /\ rcall'[t] = [client |-> c, intention_id |-> i]
      ]_vars

\* The request of an act of RealAlineaClient on "i1" timed out, no call is
\* pending, and "i1" is still in the client's table.
C40_Witness ==
    /\ rlast = RealResult("RealAlineaClient", "act", "i1", "raised", "TimeoutError")
    /\ \A t \in Tasks : rpc[t] = "idle"
    /\ "i1" \in real_active["RealAlineaClient"]

====
